---- MODULE Spec2Model ----
(***************************************************************************)
(* A model of snapcraft's build providers: the dependency injector of      *)
(* Provider.setup_snapcraft with its InstallRegistry, the QemuDriver       *)
(* launch/stop/execute protocol with its snapshot tags, the Provider       *)
(* context manager and the Qemu provider's create() and destroy().         *)
(***************************************************************************)
EXTENDS Integers, Sequences, FiniteSets, TLC

VARIABLES
    \* ---- dependency injector (Provider.setup_snapcraft) ----
    host,        \* host snap cache: name -> [installed, revision]
    registry,    \* InstallRegistry: the set of marker file paths
    snap_ops,    \* the batch computed by the last setup_snapcraft run
    performed,   \* every step (guest call or marker write) of the last run
    result,      \* how the last run ended ("ok" or the error raised);
                 \* "none" when the host changed since, or nothing ran yet
    regBefore,   \* the registry as it was when the last run started
    bumped,      \* the snaps whose host revision changed, since the run before
                 \* the last one, away from a revision that had a marker
    again        \* whether the last run directly followed a run that returned
                 \* normally, with no host change in between: "no", or what
                 \* that earlier run did ("worked": it issued guest calls,
                 \* "idle": it issued none)

VARIABLES
    \* ---- QemuDriver and the hypervisor it drives ----
    disk,          \* snapshot table of the primary disk (hda), oldest first
    vm_state_tag,  \* QemuDriver._vm_state_tag
    loadvm_tag,    \* the loadvm_tag handed to QemuCommand.setup by the last launch
    proc,          \* hypervisor process: "none", "running", "exited", "crashed"
    ssh,           \* QemuDriver._ssh_client: "closed", "connected", or
                   \* "broken" (the hypervisor it was connected to is gone)
    telnet,        \* the monitor connection of the stop() in progress is open
    prompts,       \* "(qemu) " prompts sent by the monitor and not read yet
    monIn,         \* lines the monitor of the current process has received
    monDone,       \* how many of them it has executed
    dpc,           \* where the driver call in progress stands ("idle": none)
    dres,          \* how the last driver call ended: "none", "ok" or the error
    cur,           \* the driver call in progress, or the last one
    ev,            \* what the driver call in progress, or the last one, did,
                   \* in order
    misses,        \* failed polls of the wait loop in progress
    hist,          \* the driver calls so far, while all of them returned normally
    clean          \* every driver call so far returned normally

VARIABLES
    \* ---- `with provider:` around a build (Provider.__enter__/__exit__) ----
    cpc,       \* where the with statement stands: "out", "create", "body",
               \* "exit", "destroy", "left"
    bodyExc,   \* the exception raised in the with-body, None for none
    raised,    \* what reaches the caller of the with statement
    ncalls,    \* how many times create() and destroy() were called
    built      \* the build steps the with-body has executed so far

VARIABLES
    \* ---- Qemu.create() and Qemu.destroy() called directly ----
    qcall      \* the provider call in progress, or the last one

VARIABLES
    \* ---- QemuDriver.execute ----
    ready,     \* a launch() returned normally and stop() was not called since
    xlast      \* the last execute() call and how it ended

VARIABLES
    \* ---- InstallRegistry.mark / exists called directly ----
    marked,    \* the (name, revision) pairs mark was called with
    rlast      \* the last registry call, its result, the registry before it

VARIABLES
    \* ---- Provider.execute_step called directly ----
    estep      \* the step of the last execute_step() call, "" when the last
               \* provider call was another one

VARIABLES
    \* ---- BuildImages.get ----
    image_cache,  \* FileCache("build-images"): the files cached, each under
                  \* the hash it was cached with, with the digest it has
    ilast,        \* the last get() call and how it ended
    \* ---- QemuDriver.shell ----
    shl,          \* the interactive shell: its position, the local terminal
                  \* mode, the remote channel and how the call ended
    \* ---- _handle_ssh_output ----
    drain,        \* the read loop of a remote command: its position, the
                  \* channel's pending output and exit status, what was
                  \* received and what reached standard output
    \* ---- functions without state ----
    called,       \* the last call of one of them: its arguments and what it
                  \* returned or raised
    \* ---- the guest across sessions ----
    guest,        \* the snaps (name_revision) installed on the primary disk
                  \* as last written
    saved         \* for each snapshot tag, the snaps that were installed when
                  \* the snapshot was taken

injVars == <<host, registry, snap_ops, performed, result, regBefore, bumped,
             again>>

ctxVars == <<cpc, bodyExc, raised, ncalls, built>>

drvVars == <<disk, vm_state_tag, loadvm_tag, proc, ssh, telnet, prompts, monIn,
             monDone, dpc, dres, cur, ev, misses, hist, clean>>

prvVars == <<qcall>>

exeVars == <<ready, xlast>>

regVars == <<marked, rlast>>

imgVars == <<image_cache, ilast>>

sesVars == <<guest, saved>>

ioVars == <<estep, image_cache, ilast, shl, drain, called, guest, saved>>

auxVars == <<qcall, ready, xlast, marked, rlast, estep, image_cache, ilast,
             shl, drain, called, guest, saved>>

vars == <<host, registry, snap_ops, performed, result, regBefore, bumped, again,
          disk, vm_state_tag, loadvm_tag, proc, ssh, telnet, prompts, monIn,
          monDone, dpc, dres, cur, ev, misses, hist, clean,
          cpc, bodyExc, raised, ncalls, built,
          qcall, ready, xlast, marked, rlast,
          estep, image_cache, ilast, shl, drain, called, guest, saved>>

(***************************************************************************)
(* Small helpers on sequences.                                             *)
(***************************************************************************)
SeqToSet(s) == {s[i] : i \in 1..Len(s)}

(***************************************************************************)
(* _Ops and _SnapOp.                                                       *)
(***************************************************************************)
NOP == "NOP"
INJECT == "INJECT"
INSTALL == "INSTALL"
REFRESH == "REFRESH"
\* snap_op.op.name.lower()
OpNameLower(op) ==
    CASE op = NOP -> "nop"
      [] op = INJECT -> "inject"
      [] op = INSTALL -> "install"
      [] op = REFRESH -> "refresh"

SnapOp(snap_name, op) == [snap_name |-> snap_name, op |-> op]

\* `snap_op == _Ops.REFRESH`: a _SnapOp namedtuple compared with an _Ops
\* member.  Neither type knows the other, so Python falls back to identity
\* and the comparison is False for every snap_op.
SnapOpEqualsOp(snap_op, op) == FALSE

\* Order is important, first comes the base, then comes snapcraft.
SnapNames == <<"core", "snapcraft">>
SnapNameSet == SeqToSet(SnapNames)

SNAPS_MOUNTPOINT == "/var/cache/snapcraft/snaps"

(***************************************************************************)
(* The host's snap cache and the store, as the injector reads them.        *)
(***************************************************************************)
StoreRevisions == {"5", "6"}
LocalRevisions == {"x1"}
Revisions == StoreRevisions \cup LocalRevisions

\* The confinement a snap declares: core is strict, snapcraft is classic.
Confinement(name) == IF name = "snapcraft" THEN "classic" ELSE "strict"

NotInstalled == [installed |-> FALSE, revision |-> ""]
HostSnapStates ==
    {NotInstalled} \cup [installed : {TRUE}, revision : Revisions]

\* snap.get_local_snap_info()
GetLocalSnapInfo(h, name) ==
    [revision |-> h[name].revision, confinement |-> Confinement(name)]

\* The id of a snap in the store (snap_info["id"]).
SnapId(name) == name \o "-id"

(***************************************************************************)
(* InstallRegistry.                                                        *)
(***************************************************************************)
RegistryGetFilepath(snap_name, snap_revision) == snap_name \o "_" \o snap_revision

\* mutant: the new marker replaces the ones there were
RegistryMark_Replaces(reg, snap_name, snap_revision) ==
    {RegistryGetFilepath(snap_name, snap_revision)}

RegistryMark(reg, snap_name, snap_revision) ==
    reg \cup {RegistryGetFilepath(snap_name, snap_revision)}

RegistryExists(reg, snap_name, snap_revision) ==
    RegistryGetFilepath(snap_name, snap_revision) \in reg

(***************************************************************************)
(* Steps of a run.  A run of setup_snapcraft is the sequence of steps it   *)
(* would take if no guest call raised; the run that happens is that        *)
(* sequence up to the first step that raises.                              *)
(*   kind "call":  a guest call through _run, _push_file, _mount or        *)
(*                 _umount; onfail says whether its failure is caught      *)
(*                 where it is made (then ok is the caught outcome)        *)
(*   kind "mark":  InstallRegistry.mark(name, rev)                         *)
(*   kind "raise": an error raised by the host-side code itself            *)
(***************************************************************************)
Call(via, cmd, snap) ==
    [kind |-> "call", via |-> via, cmd |-> cmd, snap |-> snap,
     onfail |-> "raise", ok |-> TRUE, rev |-> ""]

CaughtCall(via, cmd, snap, ok) ==
    [kind |-> "call", via |-> via, cmd |-> cmd, snap |-> snap,
     onfail |-> "caught", ok |-> ok, rev |-> ""]

Mark(snap, rev) ==
    [kind |-> "mark", via |-> "mark", cmd |-> <<>>, snap |-> snap,
     onfail |-> "raise", ok |-> TRUE, rev |-> rev]

Raise(error, snap) ==
    [kind |-> "raise", via |-> error, cmd |-> <<>>, snap |-> snap,
     onfail |-> "raise", ok |-> FALSE, rev |-> ""]

\* The error a failing guest call raises: _run, _mount and _umount end in
\* QemuDriver.execute, which raises ProviderExecError on a non-zero exit;
\* _push_file is an sftp put, which fails with an I/O error.
ErrorOf(step) ==
    IF step.kind = "raise" THEN step.via
    ELSE IF step.via = "_push_file" THEN "IOError"
    ELSE "ProviderExecError"

(***************************************************************************)
(* Provider._disable_and_wait_for_refreshes: hold auto refresh, then wait  *)
(* for a refresh in flight; a failure of the wait is suppressed.           *)
(***************************************************************************)
\* mutant: the wait comes before the hold
DisableAndWaitForRefreshes_WatchFirst(watchOK) ==
    << CaughtCall("_run", <<"sudo", "snap", "watch", "--last=auto-refresh">>, "",
                  watchOK),
       Call("_run", <<"sudo", "snap", "set", "core", "refresh.hold=now+15min">>, "") >>

\* mutant: a failure of the wait is not suppressed
DisableAndWaitForRefreshes_WatchRaises(watchOK) ==
    << Call("_run", <<"sudo", "snap", "set", "core", "refresh.hold=now+15min">>, ""),
       Call("_run", <<"sudo", "snap", "watch", "--last=auto-refresh">>, "") >>

DisableAndWaitForRefreshes(watchOK) ==
    << Call("_run", <<"sudo", "snap", "set", "core", "refresh.hold=now+15min">>, ""),
       CaughtCall("_run", <<"sudo", "snap", "watch", "--last=auto-refresh">>, "",
                  watchOK) >>

(***************************************************************************)
(* Provider._inject_assertions: the assertions are written to a temporary  *)
(* file, which is pushed to the guest and acknowledged there.              *)
(***************************************************************************)
InjectAssertions(assertions, snap) ==
    << Call("_push_file", <<"tmpfile", "tmpfile">> \o assertions, snap),
       Call("_run", <<"sudo", "snap", "ack", "tmpfile">>, snap) >>

(***************************************************************************)
(* Provider._get_required_op: the op for one snap and the guest calls made *)
(* to find it.  probeOK is the guest's answer to `snap info <name>`.       *)
(***************************************************************************)
GetRequiredOpCalls(snap_name, h, probeOK) ==
    IF ~h[snap_name].installed
    THEN << CaughtCall("_run", <<"snap", "info", snap_name>>, snap_name, probeOK) >>
    ELSE <<>>

\* mutant: the registry is never consulted
GetRequiredOp_IgnoresRegistry(snap_name, h, reg, probeOK) ==
    IF ~h[snap_name].installed
    THEN (IF probeOK THEN REFRESH ELSE INSTALL)
    ELSE INJECT

\* mutant: a snap the guest already knows is injected from the host
GetRequiredOp_InjectsAbsent(snap_name, h, reg, probeOK) ==
    IF ~h[snap_name].installed
    THEN (IF probeOK THEN INJECT ELSE INSTALL)
    ELSE IF RegistryExists(reg, snap_name, GetLocalSnapInfo(h, snap_name).revision)
         THEN NOP
         ELSE INJECT

\* mutant: a marker of any revision of the snap makes the op NOP
GetRequiredOp_AnyRevisionMarked(snap_name, h, reg, probeOK) ==
    IF ~h[snap_name].installed
    THEN (IF probeOK THEN REFRESH ELSE INSTALL)
    ELSE IF \E r \in Revisions : RegistryExists(reg, snap_name, r)
         THEN NOP
         ELSE INJECT

GetRequiredOp(snap_name, h, reg, probeOK) ==
    IF ~h[snap_name].installed
    THEN (IF probeOK THEN REFRESH ELSE INSTALL)
    ELSE IF RegistryExists(reg, snap_name, GetLocalSnapInfo(h, snap_name).revision)
         THEN NOP
         ELSE INJECT

(***************************************************************************)
(* Provider._install_snap: the steps applying one op of the batch.         *)
(***************************************************************************)
\* mutant: no revision counts as a local build
StartsWithX_Never(revision) == FALSE

StartsWithX(revision) == Len(revision) > 0 /\ SubSeq(revision, 1, 1) = "x"

\* mutant: no early return for NOP, the marker is written again
InstallSnap_MarksNop(snap_op, h, store) ==
    IF snap_op.op = NOP
    THEN << Mark(snap_op.snap_name, GetLocalSnapInfo(h, snap_op.snap_name).revision) >>
    ELSE << Call("_run", <<"sudo", "snap", OpNameLower(snap_op.op), snap_op.snap_name>>,
                 snap_op.snap_name),
            Mark(snap_op.snap_name, store[snap_op.snap_name]) >>

\* mutant: the marker is written before the install command is run
InstallSnap_MarksFirst(snap_op, h, store) ==
    IF snap_op.op = NOP THEN <<>>
    ELSE << Mark(snap_op.snap_name,
                 IF snap_op.op = INJECT
                 THEN GetLocalSnapInfo(h, snap_op.snap_name).revision
                 ELSE store[snap_op.snap_name]),
            Call("_run", <<"sudo", "snap", "install", snap_op.snap_name>>,
                 snap_op.snap_name) >>

InstallSnap(snap_op, h, store) ==
    LET name == snap_op.snap_name
        info == GetLocalSnapInfo(h, name)
        storeRev == store[name]
        storeConf == Confinement(name)
    IN  IF snap_op.op = NOP THEN <<>>
        ELSE IF snap_op.op = INJECT THEN
            (IF StartsWithX(info.revision)
             THEN <<>>
             ELSE InjectAssertions(
                    << "snap-declaration", "snap-name=" \o name,
                       "snap-revision", "snap-revision=" \o info.revision,
                       "snap-id=" \o SnapId(name) >>, name))
            \o << Call("_run",
                       <<"sudo", "snap", "install">>
                       \o (IF StartsWithX(info.revision) THEN <<"--dangerous">> ELSE <<>>)
                       \o (IF info.confinement = "classic" THEN <<"--classic">> ELSE <<>>)
                       \o << SNAPS_MOUNTPOINT \o "/" \o name \o "_" \o info.revision
                             \o ".snap" >>,
                       name),
                  Mark(name, info.revision) >>
        ELSE IF snap_op.op = INSTALL \/ SnapOpEqualsOp(snap_op, REFRESH) THEN
            << Call("_run",
                    <<"sudo", "snap", OpNameLower(snap_op.op)>>
                    \o (IF storeConf = "classic" THEN <<"--classic">> ELSE <<>>)
                    \o <<name>>,
                    name),
               Mark(name, storeRev) >>
        ELSE << Raise("RuntimeError", name) >>

(***************************************************************************)
(* Provider.setup_snapcraft: the batch, and the steps of the whole run.    *)
(***************************************************************************)
SnapOpsOf(h, reg, probeOK) ==
    [i \in 1..Len(SnapNames) |->
        SnapOp(SnapNames[i], GetRequiredOp(SnapNames[i], h, reg, probeOK[SnapNames[i]]))]

AllNop(ops) == \A i \in 1..Len(ops) : ops[i].op = NOP
AnyInject(ops) == \E i \in 1..Len(ops) : ops[i].op = INJECT

MountSnapsDirectory ==
    << Call("_mount", <<SNAPS_MOUNTPOINT, "snaps_dir_mount">>, "") >>

UmountSnapsDirectory ==
    << Call("_umount", <<SNAPS_MOUNTPOINT>>, "") >>

\* mutant: the batch is applied last op first
RECURSIVE InstallAll_Reversed(_, _, _, _)
InstallAll_Reversed(ops, i, h, store) ==
    IF i > Len(ops) THEN <<>>
    ELSE InstallAll_Reversed(ops, i + 1, h, store) \o InstallSnap(ops[i], h, store)

RECURSIVE InstallAll(_, _, _, _)
InstallAll(ops, i, h, store) ==
    IF i > Len(ops) THEN <<>>
    ELSE InstallSnap(ops[i], h, store) \o InstallAll(ops, i + 1, h, store)

RECURSIVE ProbeAll(_, _, _)
ProbeAll(i, h, probeOK) ==
    IF i > Len(SnapNames) THEN <<>>
    ELSE GetRequiredOpCalls(SnapNames[i], h, probeOK[SnapNames[i]])
         \o ProbeAll(i + 1, h, probeOK)

SetupSnapcraftSteps(h, reg, probeOK, watchOK, store) ==
    LET ops == SnapOpsOf(h, reg, probeOK)
    IN  ProbeAll(1, h, probeOK)
        \o (IF AllNop(ops) THEN <<>>
            ELSE (IF AnyInject(ops) THEN MountSnapsDirectory ELSE <<>>)
                 \o DisableAndWaitForRefreshes(watchOK)
                 \o InjectAssertions(
                        <<"account-key", "public-key-sha3-384=STORE_ASSERTION_KEY">>, "")
                 \o InstallAll(ops, 1, h, store)
                 \o (IF AnyInject(ops) THEN UmountSnapsDirectory ELSE <<>>))

(***************************************************************************)
(* Running the steps.  failAt is the index of the guest call that fails    *)
(* (0: no call fails); a "raise" step ends the run where it stands.        *)
(***************************************************************************)
CanRaise(step) ==
    \/ step.kind = "raise"
    \/ step.kind = "call" /\ step.onfail = "raise"

\* the index of the step at which the run stops with an error, 0 for none
StopIndex(steps, failAt) ==
    LET stops == {i \in 1..Len(steps) : steps[i].kind = "raise" \/ i = failAt}
    IN  IF stops = {} THEN 0
        ELSE CHOOSE i \in stops : \A j \in stops : i <= j

RunSteps(steps, failAt) ==
    LET stop == StopIndex(steps, failAt)
    IN  IF stop = 0 THEN steps
        ELSE [i \in 1..stop |->
                IF i = stop /\ steps[i].kind = "call"
                THEN [steps[i] EXCEPT !.ok = FALSE]
                ELSE steps[i]]

RunResult(steps, failAt) ==
    LET stop == StopIndex(steps, failAt)
    IN  IF stop = 0 THEN "ok" ELSE ErrorOf(steps[stop])

CallsOf(done) == SelectSeq(done, LAMBDA s : s.kind = "call")

\* mutant: a run that fails takes back the markers it wrote
MarksOf_RolledBack(done) ==
    IF Len(done) > 0 /\ ~done[Len(done)].ok THEN {}
    ELSE {RegistryGetFilepath(done[i].snap, done[i].rev) :
            i \in {j \in 1..Len(done) : done[j].kind = "mark"}}

MarksOf(done) ==
    {RegistryGetFilepath(done[i].snap, done[i].rev) :
        i \in {j \in 1..Len(done) : done[j].kind = "mark"}}

(***************************************************************************)
(* The inputs of a run: the guest's answers to the probes, the outcome of  *)
(* the refresh wait, what the store says of each snap, and the guest call  *)
(* that fails.  Inputs the run does not read are kept at one value.        *)
(***************************************************************************)
StoreInfos == [SnapNameSet -> StoreRevisions]

DefaultStoreInfo == "5"

ReadsInputs(h, probeOK, watchOK, store, ops) ==
    /\ \A n \in SnapNameSet : h[n].installed => probeOK[n]
    /\ AllNop(ops) => watchOK
    /\ \A i \in 1..Len(ops) :
          ops[i].op # INSTALL => store[ops[i].snap_name] = DefaultStoreInfo

\* the bumps the next run meets: those made since the last run
BumpsSinceLastRun == IF result = "none" THEN bumped ELSE {}

\* the host goes from one installed revision, which has a marker, to
\* another revision
IsBump(old, new, name, reg) ==
    /\ old.installed /\ new.installed
    /\ new.revision # old.revision
    /\ RegistryExists(reg, name, old.revision)

SetupSnapcraft ==
    \E probeOK \in [SnapNameSet -> BOOLEAN], watchOK \in BOOLEAN, store \in StoreInfos :
      \E ops \in {SnapOpsOf(host, registry, probeOK)} :
        /\ ReadsInputs(host, probeOK, watchOK, store, ops)
        /\ \E steps \in {SetupSnapcraftSteps(host, registry, probeOK, watchOK, store)} :
            \E failAt \in 0..Len(steps) :
              /\ failAt # 0 => steps[failAt].kind = "call" /\ CanRaise(steps[failAt])
              /\ failAt # 0 => StopIndex(steps, failAt) = failAt
              /\ \E done \in {RunSteps(steps, failAt)} :
                    /\ snap_ops' = ops
                    /\ performed' = done
                    /\ result' = RunResult(steps, failAt)
                    /\ registry' = registry \cup MarksOf(done)
                    /\ regBefore' = registry
                    /\ bumped' = BumpsSinceLastRun
                    /\ again' = IF result # "ok" THEN "no"
                                ELSE IF CallsOf(performed) = <<>> THEN "idle"
                                ELSE "worked"
                    /\ UNCHANGED host

(***************************************************************************)
(* The host's snap cache changes between runs: a snap is installed,        *)
(* removed, refreshed to another revision or replaced by a local build.    *)
(***************************************************************************)
HostChange ==
    \E n \in SnapNameSet, s \in HostSnapStates :
        /\ s # host[n]
        /\ host' = [host EXCEPT ![n] = s]
        /\ snap_ops' = <<>>
        /\ performed' = <<>>
        /\ result' = "none"
        /\ regBefore' = registry
        /\ bumped' = IF IsBump(host[n], s, n, registry)
                     THEN BumpsSinceLastRun \cup {n}
                     ELSE BumpsSinceLastRun \ {n}
        /\ again' = "no"
        /\ UNCHANGED registry

InitInjector ==
    /\ host \in [SnapNameSet -> HostSnapStates]
    /\ registry = {}
    /\ snap_ops = <<>>
    /\ performed = <<>>
    /\ result = "none"
    /\ regBefore = {}
    /\ bumped = {}
    /\ again = "no"

(***************************************************************************)
(* Snapshots of the primary disk and QemuDriver's tag.                     *)
(***************************************************************************)
\* Python's None; "{}".format(None) is "None"
None == "None"

Rams == {"2048", "4096", None}

\* mutant: one static tag, whatever the ram
FormatTag_Static(ram) == "latest"

\* "{}-ram".format(ram)
FormatTag(ram) == ram \o "-ram"

Snapshot(snapshot_id, tag) == [snapshot_id |-> snapshot_id, tag |-> tag]

\* QemuImgCommand.snapshot_list: one Snapshot per row of the snapshot table
SnapshotList(d) == [i \in 1..Len(d) |-> Snapshot(i, d[i])]

\* mutant: any snapshot counts, whatever its tag
has_tag_AnySnapshot(snapshots, tag) == Len(snapshots) > 0

\* mutant: only the first snapshot is looked at
has_tag_FirstSnapshot(snapshots, tag) ==
    Len(snapshots) > 0 /\ snapshots[1].tag = tag

has_tag(snapshots, tag) == \E i \in 1..Len(snapshots) : snapshots[i].tag = tag

\* the hypervisor's savevm: a snapshot of that tag replaces the one it had
SaveVm(d, tag) == IF \E i \in 1..Len(d) : d[i] = tag THEN d ELSE Append(d, tag)

MaxPolls == 2
MaxCalls == 4

(***************************************************************************)
(* The call in progress, and the record of the calls made.                 *)
(***************************************************************************)
NoCall == [op |-> "none", ram |-> None, afterStop |-> FALSE, monitor |-> "none"]

\* the last call made was a stop() that returned normally: the hypervisor
\* has quit and the driver is stopped
Stopped == dpc = "idle" /\ cur.op = "stop" /\ dres = "ok"

CanCall == dpc = "idle" /\ (clean => Len(hist) < MaxCalls)

HistEntry(op, ram, loadvm, sent, d) ==
    [op |-> op, ram |-> ram, loadvm |-> loadvm, sent |-> sent, tags |-> d]

\* a call returns normally
Returned(entry) ==
    /\ dpc' = "idle"
    /\ dres' = "ok"
    /\ hist' = IF clean THEN Append(hist, entry) ELSE <<>>
    /\ UNCHANGED clean

\* a call raises
Raised(error) ==
    /\ dpc' = "idle"
    /\ dres' = error
    /\ hist' = <<>>
    /\ clean' = FALSE

Continues(at) ==
    /\ dpc' = at
    /\ UNCHANGED <<dres, hist, clean>>

(***************************************************************************)
(* QemuDriver.launch, lines 74-90: the tag, the snapshot lookup and the    *)
(* start of the hypervisor.  QemuImgCommand() raises when qemu-img is not  *)
(* installed.                                                              *)
(***************************************************************************)
\* mutant: resume whenever a tag was computed
LoadvmTagFor_Always(d, tag) == tag

LoadvmTagFor(d, tag) == IF has_tag(SnapshotList(d), tag) THEN tag ELSE None

\* mutant: the hypervisor is started before qemu-img is looked for
LaunchStartEvents_StartsFirst(qemuImgFound) == <<"start">>

\* what launch() has done when line 76 is passed: QemuImgCommand() raises
\* before QemuCommand.start() is reached
LaunchStartEvents(qemuImgFound) == IF qemuImgFound THEN <<"start">> ELSE <<>>

LaunchStart(ram) ==
    /\ CanCall
    /\ cur' = [op |-> "launch", ram |-> ram, afterStop |-> FALSE,
                monitor |-> "none"]
    /\ vm_state_tag' = FormatTag(ram)
    /\ misses' = 0
    /\ \E qemuImgFound \in BOOLEAN :
          IF qemuImgFound
          THEN /\ loadvm_tag' = LoadvmTagFor(disk, FormatTag(ram))
               /\ ev' = LaunchStartEvents(qemuImgFound)
               /\ proc' = "running"
               /\ monIn' = <<>>
               /\ monDone' = 0
               /\ Continues("wait_ssh_port")
          ELSE /\ Raised("ProviderCommandNotFound")
               /\ ev' = LaunchStartEvents(qemuImgFound)
               /\ UNCHANGED <<loadvm_tag, proc, monIn, monDone>>
    /\ UNCHANGED <<disk, ssh, telnet, prompts>>

(***************************************************************************)
(* QemuDriver._wait_for_ssh, first loop: poll the SSH port every second    *)
(* until a TCP connect succeeds.  The port opens only while the            *)
(* hypervisor runs.                                                        *)
(***************************************************************************)
WaitSshPort ==
    /\ dpc = "wait_ssh_port"
    /\ \E connected \in BOOLEAN :
          /\ connected => proc = "running"
          /\ IF connected
             THEN /\ misses' = 0 /\ dpc' = "ssh_connect"
                  /\ ev' = Append(ev, "port open")
             ELSE /\ misses < MaxPolls /\ misses' = misses + 1 /\ dpc' = dpc
                  /\ UNCHANGED ev
    /\ UNCHANGED <<disk, vm_state_tag, loadvm_tag, proc, ssh, telnet, prompts,
                   monIn, monDone, dres, cur, hist, clean>>

(***************************************************************************)
(* QemuDriver._wait_for_ssh, second loop: connect the SSH client, again on *)
(* every paramiko.SSHException; any other error leaves the loop.           *)
(***************************************************************************)
\* what paramiko's connect() can end with: the handshake is not ready
\* (SSHException), the key is rejected (AuthenticationException, a subclass
\* of SSHException), the connection is refused or reset (socket.error)
SshConnectOutcomes ==
    {"ok", "SSHException", "AuthenticationException", "socket.error"}

\* mutant: no failed attempt is tried again
SshConnectAttempt_NoRetry(outcome) ==
    IF outcome = "ok" THEN "break" ELSE "raise"

\* one turn of the loop, by how connect() ended
SshConnectAttempt(outcome) ==
    IF outcome = "ok" THEN "break"
    ELSE IF outcome \in {"SSHException", "AuthenticationException"} THEN "again"
    ELSE "raise"

SshConnect ==
    /\ dpc = "ssh_connect"
    /\ \E outcome \in SshConnectOutcomes :
          /\ outcome = "ok" => proc = "running"
          /\ CASE SshConnectAttempt(outcome) = "break" ->
                    /\ ssh' = "connected" /\ misses' = 0
                    /\ ev' = Append(ev, "ssh auth")
                    /\ Continues("wait_cloudinit")
               [] SshConnectAttempt(outcome) = "again" ->
                    /\ misses < MaxPolls /\ misses' = misses + 1
                    /\ Continues(dpc)
                    /\ UNCHANGED <<ssh, ev>>
               [] SshConnectAttempt(outcome) = "raise" ->
                    /\ Raised(outcome)
                    /\ UNCHANGED <<ssh, misses, ev>>
    /\ UNCHANGED <<disk, vm_state_tag, loadvm_tag, proc, telnet, prompts,
                   monIn, monDone, cur>>

(***************************************************************************)
(* QemuDriver.execute: run one command in the guest over the SSH client.   *)
(* Without a connected client get_transport() is None and the call fails   *)
(* on it; a non-zero exit status raises ProviderExecError.                 *)
(***************************************************************************)
\* mutant: the state of the SSH client is not looked at
ExecuteOutcomes_Always == {"ok", "ProviderExecError"}

ExecuteOutcomes ==
    IF ssh = "closed" THEN {"AttributeError"}
    ELSE IF ssh = "broken" \/ proc # "running" THEN {"SSHException"}
    ELSE {"ok", "ProviderExecError"}

(***************************************************************************)
(* QemuDriver._wait_for_cloudinit: probe for the first-boot marker with    *)
(* execute() until the probe exits 0; ProviderExecError is suppressed, any *)
(* other error of execute() leaves launch().                               *)
(***************************************************************************)
\* mutant: a probe miss is not suppressed
CloudinitProbe_MissRaises(outcome) ==
    IF outcome = "ok" THEN "break" ELSE "raise"

\* one turn of the loop, by how execute() ended
CloudinitProbe(outcome) ==
    IF outcome = "ok" THEN "break"
    ELSE IF outcome = "ProviderExecError" THEN "again"
    ELSE "raise"

WaitCloudinit ==
    /\ dpc = "wait_cloudinit"
    /\ \E outcome \in ExecuteOutcomes :
          CASE CloudinitProbe(outcome) = "break" ->
                    /\ misses' = 0
                    /\ ev' = Append(ev, "probe 0")
                    /\ Returned(HistEntry("launch", cur.ram, loadvm_tag, <<>>, disk))
            [] CloudinitProbe(outcome) = "again" ->
                    /\ misses < MaxPolls /\ misses' = misses + 1
                    /\ ev' = Append(ev, "probe miss")
                    /\ Continues(dpc)
            [] CloudinitProbe(outcome) = "raise" ->
                    /\ Raised(outcome)
                    /\ UNCHANGED <<misses, ev>>
    /\ UNCHANGED <<disk, vm_state_tag, loadvm_tag, proc, ssh, telnet, prompts,
                   monIn, monDone, cur>>

(***************************************************************************)
(* QemuDriver.stop, lines 95-103: close the SSH client and open the        *)
(* monitor.  Only socket.gaierror is caught; a refused connection is an    *)
(* OSError of another kind and leaves stop() as it is.                     *)
(***************************************************************************)
\* telnetlib.Telnet(host="localhost", port=telnet_port): whether the
\* connection to the monitor port is made, and why not
MonitorReached(resolved, p) ==
    IF ~resolved THEN "unresolved"
    ELSE IF p # "running" THEN "refused"
    ELSE "connected"

StopStart ==
    /\ CanCall
    /\ ssh' = "closed"
    /\ ev' = <<>>
    /\ misses' = 0
    /\ \E resolved \in BOOLEAN :
          /\ cur' = [op |-> "stop", ram |-> None, afterStop |-> Stopped,
                      monitor |-> MonitorReached(resolved, proc)]
          /\ IF ~resolved
             THEN /\ Raised("ProviderCommunicationError")
                  /\ UNCHANGED <<telnet, prompts>>
             ELSE IF proc # "running"
             THEN /\ Raised("ConnectionRefusedError")
                  /\ UNCHANGED <<telnet, prompts>>
             ELSE /\ telnet' = TRUE
                  /\ prompts' = 1
                  /\ Continues(IF vm_state_tag # None THEN "stop_savevm" ELSE "stop_quit")
    /\ UNCHANGED <<disk, vm_state_tag, loadvm_tag, proc, monIn, monDone>>

(***************************************************************************)
(* QemuDriver.stop, lines 105-107: wait for the prompt, send savevm.       *)
(* read_until blocks until the prompt is there; it raises EOFError when    *)
(* the connection is gone, which stop() turns into ProviderStopError.      *)
(***************************************************************************)
\* mutant: quit is sent without waiting for a prompt
StopQuitEvents_NoWait == <<"write quit">>

StopSavevmEvents(tag) == <<"read_until (qemu) ", "write savevm " \o tag>>

StopQuitEvents == <<"read_until (qemu) ", "write quit">>

StopSavevm ==
    /\ dpc = "stop_savevm"
    /\ IF proc = "running"
       THEN /\ prompts > 0
            /\ prompts' = prompts - 1
            /\ monIn' = Append(monIn, "savevm " \o vm_state_tag)
            /\ ev' = ev \o StopSavevmEvents(vm_state_tag)
            /\ Continues("stop_quit")
            /\ UNCHANGED telnet
       ELSE /\ Raised("ProviderStopError")
            /\ telnet' = FALSE
            /\ UNCHANGED <<prompts, monIn, ev>>
    /\ UNCHANGED <<disk, vm_state_tag, loadvm_tag, proc, ssh, monDone, cur, misses>>

(***************************************************************************)
(* QemuDriver.stop, lines 108-109: wait for the prompt, send quit.         *)
(***************************************************************************)
StopQuit ==
    /\ dpc = "stop_quit"
    /\ IF proc = "running"
       THEN /\ \E events \in {StopQuitEvents} :
                 /\ "read_until (qemu) " \in SeqToSet(events) => prompts > 0
                 /\ prompts' = IF "read_until (qemu) " \in SeqToSet(events)
                               THEN prompts - 1 ELSE prompts
                 /\ ev' = ev \o events
            /\ monIn' = Append(monIn, "quit")
            /\ Continues("stop_join")
            /\ UNCHANGED telnet
       ELSE /\ Raised("ProviderStopError")
            /\ telnet' = FALSE
            /\ UNCHANGED <<prompts, monIn, ev>>
    /\ UNCHANGED <<disk, vm_state_tag, loadvm_tag, proc, ssh, monDone, cur, misses>>

(***************************************************************************)
(* QemuDriver.stop, line 114: join the hypervisor.                         *)
(***************************************************************************)
StopJoin ==
    /\ dpc = "stop_join"
    /\ proc \in {"exited", "crashed"}
    /\ ev' = Append(ev, "join")
    /\ telnet' = FALSE
    /\ Returned(HistEntry("stop", None, None, monIn, disk))
    /\ UNCHANGED <<disk, vm_state_tag, loadvm_tag, proc, ssh, prompts, monIn,
                   monDone, cur, misses>>

(***************************************************************************)
(* The hypervisor.  Its monitor executes the lines it received in order:   *)
(* savevm saves a snapshot under the tag and prompts again, quit ends the  *)
(* process.  The process may also die at any time.  The SSH connection of  *)
(* the driver ends with the process.                                       *)
(***************************************************************************)
SshAfterExit(s) == IF s = "connected" THEN "broken" ELSE s

MonitorExec ==
    /\ proc = "running"
    /\ monDone < Len(monIn)
    /\ monDone' = monDone + 1
    /\ LET line == monIn[monDone + 1]
       IN  IF line = "quit"
           THEN /\ proc' = "exited"
                /\ ssh' = SshAfterExit(ssh)
                /\ UNCHANGED <<disk, prompts>>
           ELSE /\ disk' = SaveVm(disk, SubSeq(line, Len("savevm ") + 1, Len(line)))
                /\ prompts' = prompts + 1
                /\ UNCHANGED <<proc, ssh>>
    /\ UNCHANGED <<vm_state_tag, loadvm_tag, telnet, monIn, dpc, dres, cur,
                   ev, misses, hist, clean>>

HypervisorDies ==
    /\ proc = "running"
    /\ proc' = "crashed"
    /\ ssh' = SshAfterExit(ssh)
    /\ UNCHANGED <<disk, vm_state_tag, loadvm_tag, telnet, prompts, monIn,
                   monDone, dpc, dres, cur, ev, misses, hist, clean>>

InitDriver ==
    /\ disk = <<>>
    /\ vm_state_tag = None
    /\ loadvm_tag = None
    /\ proc = "none"
    /\ ssh = "closed"
    /\ telnet = FALSE
    /\ prompts = 0
    /\ monIn = <<>>
    /\ monDone = 0
    /\ dpc = "idle"
    /\ dres = "none"
    /\ cur = NoCall
    /\ ev = <<>>
    /\ misses = 0
    /\ hist = <<>>
    /\ clean = TRUE

(***************************************************************************)
(* Provider.__enter__: create(), which for Qemu is launch_instance() and   *)
(* so _launch(): the disk image and the cloud image are set up on the      *)
(* host, then the driver is launched with ram="2048".                      *)
(***************************************************************************)
NoExc == [error |-> None, from |-> "none"]
Exc(error, from) == [error |-> error, from |-> from]

Enter ==
    /\ cpc = "out"
    /\ ncalls' = [ncalls EXCEPT !.create = @ + 1]
    /\ \E imagesOK \in BOOLEAN :
          IF imagesOK
          THEN /\ LaunchStart("2048")
               /\ cpc' = "create"
               /\ UNCHANGED <<bodyExc, raised>>
          ELSE /\ cpc' = "left"
               /\ raised' = Exc("BuildImageError", "create")
               /\ UNCHANGED bodyExc
               /\ UNCHANGED drvVars
    /\ UNCHANGED built

\* launch() has ended: the body is entered, or the error leaves __enter__
\* and with it the with statement; __exit__ is not called then
CreateReturns ==
    /\ cpc = "create"
    /\ dpc = "idle"
    /\ IF dres = "ok"
       THEN cpc' = "body" /\ UNCHANGED raised
       ELSE cpc' = "left" /\ raised' = Exc(dres, "create")
    /\ UNCHANGED <<bodyExc, ncalls, built>>
    /\ UNCHANGED drvVars

(***************************************************************************)
(* The with-body: build steps (Provider.execute_step, one guest command    *)
(* each) until the body ends or a step raises.                             *)
(***************************************************************************)
\* the lifecycle steps, in order
Steps == <<"pull", "build", "stage", "prime">>

\* mutant: the command of pack_project, whatever the step
ExecuteStepCommand_Pack(step) == <<"sudo", "snapcraft", "snap">>

\* Provider.execute_step(step): the guest command it runs
ExecuteStepCommand(step) == <<"sudo", "snapcraft", step>>

BodyExecuteStep ==
    /\ cpc = "body"
    /\ Len(built) < Len(Steps)
    /\ \E outcome \in ExecuteOutcomes :
          IF outcome = "ok"
          THEN /\ built' = Append(built, ExecuteStepCommand(Steps[Len(built) + 1]))
               /\ UNCHANGED <<cpc, bodyExc>>
          ELSE /\ cpc' = "exit"
               /\ bodyExc' = outcome
               /\ UNCHANGED built
    /\ UNCHANGED <<raised, ncalls>>
    /\ UNCHANGED drvVars

BodyEnds ==
    /\ cpc = "body"
    /\ cpc' = "exit"
    /\ UNCHANGED <<bodyExc, raised, ncalls, built>>
    /\ UNCHANGED drvVars

(***************************************************************************)
(* Provider.__exit__: destroy(), which for Qemu unmounts the project       *)
(* directory in the guest and then stops the driver.  __exit__ returns     *)
(* None, so an exception of the body goes on to the caller when destroy()  *)
(* returns; an exception raised by destroy() itself goes to the caller in  *)
(* its place.                                                              *)
(***************************************************************************)
\* mutant: __exit__ returns True
ExitOutcome_Swallows(destroyError, bodyError) ==
    IF destroyError # "ok" THEN Exc(destroyError, "destroy")
    ELSE Exc("ok", "none")

ExitOutcome(destroyError, bodyError) ==
    IF destroyError # "ok" THEN Exc(destroyError, "destroy")
    ELSE IF bodyError # None THEN Exc(bodyError, "body")
    ELSE Exc("ok", "none")

\* mutant: destroy() is left out when the body raised
ExitCallsDestroy_OnlyOnSuccess(bodyError) == bodyError = None

ExitCallsDestroy(bodyError) == TRUE

Exit ==
    /\ cpc = "exit"
    /\ IF ExitCallsDestroy(bodyExc)
       THEN /\ ncalls' = [ncalls EXCEPT !.destroy = @ + 1]
            /\ \E outcome \in ExecuteOutcomes :
                 IF outcome = "ok"
                 THEN /\ StopStart
                      /\ cpc' = "destroy"
                      /\ UNCHANGED raised
                 ELSE /\ cpc' = "left"
                      /\ raised' = ExitOutcome(outcome, bodyExc)
                      /\ UNCHANGED drvVars
       ELSE /\ cpc' = "left"
            /\ raised' = ExitOutcome("ok", bodyExc)
            /\ UNCHANGED ncalls
            /\ UNCHANGED drvVars
    /\ UNCHANGED <<bodyExc, built>>

DestroyReturns ==
    /\ cpc = "destroy"
    /\ dpc = "idle"
    /\ cpc' = "left"
    /\ raised' = ExitOutcome(dres, bodyExc)
    /\ UNCHANGED <<bodyExc, ncalls, built>>
    /\ UNCHANGED drvVars

InitCtx ==
    /\ cpc = "out"
    /\ bodyExc = None
    /\ raised = NoExc
    /\ ncalls = [create |-> 0, destroy |-> 0]
    /\ built = <<>>

(***************************************************************************)
(* Qemu.create() and Qemu.destroy() called directly, one call at a time.   *)
(* create() is launch_instance(), which is _launch(); destroy() unmounts   *)
(* the project directory with a guest command and then stops the driver.   *)
(***************************************************************************)
\* did: the methods the call has called, in order
NoProviderCall == [op |-> "none", pc |-> "idle", res |-> "none",
                   destroyed |-> FALSE, umounts |-> 0, did |-> <<>>]

\* Qemu.create, line 127
CreateCalls == <<"launch_instance">>

\* the last provider call was a destroy() that returned normally
Destroyed == qcall.op = "destroy" /\ qcall.pc = "idle" /\ qcall.res = "ok"

QemuCreate ==
    /\ qcall.pc = "idle"
    /\ \E imagesOK \in BOOLEAN :
          IF imagesOK
          THEN /\ LaunchStart("2048")
               /\ qcall' = [op |-> "create", pc |-> "launch", res |-> "none",
                            destroyed |-> Destroyed, umounts |-> 0,
                            did |-> CreateCalls]
          ELSE /\ CanCall
               /\ qcall' = [op |-> "create", pc |-> "idle",
                            res |-> "BuildImageError",
                            destroyed |-> Destroyed, umounts |-> 0,
                            did |-> CreateCalls]
               /\ UNCHANGED drvVars

QemuCreateReturns ==
    /\ qcall.pc = "launch"
    /\ dpc = "idle"
    /\ qcall' = [qcall EXCEPT !.pc = "idle", !.res = dres]
    /\ UNCHANGED drvVars

QemuDestroy ==
    /\ qcall.pc = "idle"
    /\ \E outcome \in ExecuteOutcomes :
          IF outcome = "ok"
          THEN /\ StopStart
               /\ qcall' = [op |-> "destroy", pc |-> "stop", res |-> "none",
                            destroyed |-> Destroyed, umounts |-> 1,
                            did |-> <<"_umount", "stop">>]
          ELSE /\ CanCall
               /\ qcall' = [op |-> "destroy", pc |-> "idle", res |-> outcome,
                            destroyed |-> Destroyed,
                            umounts |-> IF outcome = "ProviderExecError"
                                        THEN 1 ELSE 0,
                            did |-> <<"_umount">>]
               /\ UNCHANGED drvVars

QemuDestroyReturns ==
    /\ qcall.pc = "stop"
    /\ dpc = "idle"
    /\ qcall' = [qcall EXCEPT !.pc = "idle", !.res = dres]
    /\ UNCHANGED drvVars

(***************************************************************************)
(* QemuDriver.execute called directly.  The command is run once in the     *)
(* guest when a session can be opened on the SSH client; its exit status   *)
(* decides between a normal return and ProviderExecError.                  *)
(***************************************************************************)
\* exit_code = None: no exit status was read
NoExit == -1

ExitCodes == {0, 1, 7}

Commands == {<<"snap", "list">>, ExecuteStepCommand("build")}

NoError == [type |-> None, command |-> <<>>, exit_code |-> NoExit]

\* ready, after: whether the driver was READY when execute() was called,
\* and the driver call (launch or stop) that came last before it
NoExecute == [op |-> "none", command |-> <<>>, ready |-> FALSE,
              after |-> [op |-> "none", res |-> "none"], runs |-> 0,
              exit_code |-> NoExit, error |-> NoError]

\* mutant: the error does not carry the exit code
ExecuteRaises_DropsExitCode(command, exit_code) ==
    IF exit_code # 0
    THEN [type |-> "ProviderExecError", command |-> command, exit_code |-> NoExit]
    ELSE NoError

\* lines 137-140
ExecuteRaises(command, exit_code) ==
    IF exit_code # 0
    THEN [type |-> "ProviderExecError", command |-> command,
          exit_code |-> exit_code]
    ELSE NoError

Execute(command) ==
    /\ dpc = "idle"
    /\ \E outcome \in ExecuteOutcomes, exit_code \in ExitCodes \cup {NoExit} :
          /\ outcome = "ok" => exit_code = 0
          /\ outcome = "ProviderExecError" => exit_code \in ExitCodes \ {0}
          /\ outcome \notin {"ok", "ProviderExecError"} => exit_code = NoExit
          /\ xlast' = [op |-> "execute", command |-> command, ready |-> ready,
                       after |-> [op |-> cur.op, res |-> dres],
                       runs |-> IF exit_code = NoExit THEN 0 ELSE 1,
                       exit_code |-> exit_code,
                       error |-> IF exit_code = NoExit
                                 THEN [NoError EXCEPT !.type = outcome]
                                 ELSE ExecuteRaises(command, exit_code)]
    /\ UNCHANGED ready
    /\ UNCHANGED drvVars

\* READY is entered when launch() returns normally
LaunchMakesReady ==
    ready' = (ready \/ (cur.op = "launch" /\ dpc' = "idle" /\ dres' = "ok"))

\* READY is left when stop() is called
StopEndsReady == ready' = FALSE

(***************************************************************************)
(* InstallRegistry.mark and InstallRegistry.exists called directly.        *)
(***************************************************************************)
NoRegistryCall == [op |-> "none", snap_name |-> "", snap_revision |-> "",
                   ret |-> FALSE, before |-> {}, markedBefore |-> {}]

RegistryMarkCall(snap_name, snap_revision) ==
    /\ registry' = RegistryMark(registry, snap_name, snap_revision)
    /\ marked' = marked \cup {<<snap_name, snap_revision>>}
    /\ rlast' = [op |-> "mark", snap_name |-> snap_name,
                 snap_revision |-> snap_revision, ret |-> FALSE,
                 before |-> registry, markedBefore |-> marked]

RegistryExistsCall(snap_name, snap_revision) ==
    /\ rlast' = [op |-> "exists", snap_name |-> snap_name,
                 snap_revision |-> snap_revision,
                 ret |-> RegistryExists(registry, snap_name, snap_revision),
                 before |-> registry, markedBefore |-> marked]
    /\ UNCHANGED <<registry, marked>>

(***************************************************************************)
(* Provider.execute_step called directly: one guest command through _run.  *)
(***************************************************************************)
ExecuteStepSteps(step) == << Call("_run", ExecuteStepCommand(step), "") >>

ExecuteStep ==
    \E step \in SeqToSet(Steps) :
      \E steps \in {ExecuteStepSteps(step)} :
        \E failAt \in 0..Len(steps) :
          /\ failAt # 0 => steps[failAt].kind = "call" /\ CanRaise(steps[failAt])
          /\ \E done \in {RunSteps(steps, failAt)} :
                /\ estep' = step
                /\ snap_ops' = <<>>
                /\ performed' = done
                /\ result' = RunResult(steps, failAt)
                /\ registry' = registry \cup MarksOf(done)
                /\ regBefore' = registry
                /\ again' = "no"
                /\ UNCHANGED <<host, bumped>>

(***************************************************************************)
(* BuildImages: the base images, and get(), which answers from the image   *)
(* cache and otherwise downloads the image, checks its digest and caches   *)
(* it.                                                                     *)
(***************************************************************************)
MaxGets == 4

Bases == {"core", "core18", "core20"}

DebArchs == {"amd64", "i386"}

Image(base, snap_arch, checksum) ==
    [base |-> base, snap_arch |-> snap_arch, checksum |-> checksum,
     algorithm |-> "sha256"]

\* _get_build_images(): the entry of ("core", "amd64") is a 1-tuple holding
\* the _Image (line 46-54 end with a comma), the one of ("core18", "amd64")
\* is the _Image itself
GetBuildImages ==
    [k \in {<<"core", "amd64">>, <<"core18", "amd64">>} |->
        IF k = <<"core", "amd64">>
        THEN [tuple |-> TRUE,
              image |-> Image("core", "amd64",
                  "79549e87ddfc61b1cc8626a67ccc025cd7111d1af93ec28ea46ba6de70819f8c")]
        ELSE [tuple |-> FALSE,
              image |-> Image("core18", "amd64",
                  "c2d3c8af5ed1ef9c76bc8cfe5c80e78e4b2b27190696068535617ec1dc10378a")]]

\* what calculate_hash can find for a downloaded file
Digests ==
    {GetBuildImages[k].image.checksum : k \in DOMAIN GetBuildImages}
        \cup {"0000-truncated", "ffff-tampered"}

CachedFile(hash, digest) == [hash |-> hash, digest |-> digest]

NoFile == CachedFile(None, None)

\* FileCache.get(hash=...): the file cached under the hash, if any
CacheHit(cache, checksum) ==
    IF \E f \in cache : f.hash = checksum
    THEN CHOOSE f \in cache : f.hash = checksum
    ELSE NoFile

\* mutant: the download is cached before its digest is compared
CacheDownload_Unchecked(cache, image, calculated_digest) ==
    cache \cup {CachedFile(image.checksum, calculated_digest)}

\* lines 82-88: the cache after a download
CacheDownload(cache, image, calculated_digest) ==
    IF image.checksum # calculated_digest
    THEN cache
    ELSE cache \cup {CachedFile(image.checksum, calculated_digest)}

NoGet == [op |-> "none", base |-> "", deb_arch |-> "", downloaded |-> None,
          error |-> None, ret |-> NoFile, before |-> {}, gets |-> 0,
          downloads |-> 0]

GetEnds(base, deb_arch, downloaded, error, ret) ==
    ilast' = [op |-> "get", base |-> base, deb_arch |-> deb_arch,
              downloaded |-> downloaded, error |-> error, ret |-> ret,
              before |-> image_cache, gets |-> ilast.gets + 1,
              downloads |-> ilast.downloads + (IF downloaded # None THEN 1 ELSE 0)]

Get(base, deb_arch) ==
    /\ ilast.gets < MaxGets
    /\ IF <<base, deb_arch>> \notin DOMAIN GetBuildImages
       THEN /\ GetEnds(base, deb_arch, None, "BuildImageForBaseMissing", NoFile)
            /\ UNCHANGED image_cache
       ELSE IF GetBuildImages[<<base, deb_arch>>].tuple
       THEN /\ GetEnds(base, deb_arch, None, "AttributeError", NoFile)
            /\ UNCHANGED image_cache
       ELSE \E image \in {GetBuildImages[<<base, deb_arch>>].image} :
              IF CacheHit(image_cache, image.checksum) # NoFile
              THEN /\ GetEnds(base, deb_arch, None, None,
                              CacheHit(image_cache, image.checksum))
                   /\ UNCHANGED image_cache
              ELSE \E status_ok \in BOOLEAN, calculated_digest \in Digests :
                     IF ~status_ok
                     THEN /\ calculated_digest = image.checksum
                          /\ GetEnds(base, deb_arch, None, "HTTPError", NoFile)
                          /\ UNCHANGED image_cache
                     ELSE /\ image_cache' =
                                CacheDownload(image_cache, image, calculated_digest)
                          /\ IF image.checksum # calculated_digest
                             THEN GetEnds(base, deb_arch, calculated_digest,
                                          "BuildImageChecksumError", NoFile)
                             ELSE GetEnds(base, deb_arch, calculated_digest, None,
                                          CacheHit(image_cache', image.checksum))

\* the user's cache directory is emptied
CacheCleared ==
    /\ image_cache # {}
    /\ image_cache' = {}
    /\ UNCHANGED ilast

(***************************************************************************)
(* QemuDriver.shell and _handle_ssh_shell: the interactive shell.          *)
(***************************************************************************)
MaxCopied == 2

\* modes the local terminal can be in when the shell is asked for
TtyModes == {"cooked", "noecho"}

NoShell == [pc |-> "idle", tty |-> "cooked", oldtty |-> None, chan |-> "none",
            result |-> None, out |-> 0, sent |-> 0]

\* shell() is left: by return (result "returned") or by the exception
ShellEnds(s, how) == [s EXCEPT !.pc = "done", !.result = how]

\* line 147-148: finally: channel.close()
ShellFinally(s, how) == ShellEnds([s EXCEPT !.chan = "closed"], how)

\* line 234-235: finally: tcsetattr(sys.stdin, TCSADRAIN, oldtty), and then
\* the finally of shell()
HandleFinally(s, how) == ShellFinally([s EXCEPT !.tty = s.oldtty], how)

\* the terminal is put in another mode before the shell is asked for
LocalTerminalSet ==
    /\ shl.pc = "idle"
    /\ \E mode \in TtyModes \ {shl.tty} : shl' = [shl EXCEPT !.tty = mode]

\* line 143, 116-123: _get_ssh_shell: open_session, get_pty, settimeout
GetSshShell ==
    /\ shl.pc = "idle"
    /\ \E outcome \in {"ok", "no transport", "open_session raises",
                        "get_pty raises"} :
         shl' = CASE outcome = "ok" ->
                       [shl EXCEPT !.pc = "invoke_shell", !.chan = "open"]
                  [] outcome = "no transport" -> ShellEnds(shl, "AttributeError")
                  [] outcome = "open_session raises" ->
                       ShellEnds(shl, "SSHException")
                  [] outcome = "get_pty raises" ->
                       ShellEnds([shl EXCEPT !.chan = "open"], "SSHException")

\* line 144: channel.invoke_shell(), before the try
InvokeShell ==
    /\ shl.pc = "invoke_shell"
    /\ \E raises \in BOOLEAN :
         shl' = IF raises THEN ShellEnds(shl, "SSHException")
                ELSE [shl EXCEPT !.pc = "tcgetattr"]

\* line 209: oldtty = termios.tcgetattr(sys.stdin), before the try
TcGetAttr ==
    /\ shl.pc = "tcgetattr"
    /\ \E raises \in BOOLEAN :
         shl' = IF raises THEN ShellFinally(shl, "termios.error")
                ELSE [shl EXCEPT !.pc = "setraw", !.oldtty = shl.tty]

\* line 211-213: tty.setraw, tty.setcbreak, channel.settimeout(0.0)
SetRaw ==
    /\ shl.pc = "setraw"
    /\ \E outcome \in {"ok", "setcbreak raises"} :
         shl' = IF outcome = "ok"
                THEN [shl EXCEPT !.pc = "loop", !.tty = "raw"]
                ELSE HandleFinally([shl EXCEPT !.tty = "raw"], "termios.error")

\* line 217-228: the channel is readable
CopyFromChannel ==
    /\ shl.pc = "loop"
    /\ \E outcome \in {"data", "closed", "socket.timeout", "socket.error",
                        "write raises"} :
         CASE outcome = "data" ->
                /\ shl.out < MaxCopied
                /\ shl' = [shl EXCEPT !.out = @ + 1]
           [] outcome = "closed" -> shl' = HandleFinally(shl, "returned")
           [] outcome = "socket.timeout" -> shl' = shl
           [] outcome = "socket.error" ->
                shl' = HandleFinally(shl, "socket.error")
           [] outcome = "write raises" ->
                shl' = HandleFinally(shl, "BrokenPipeError")

\* line 229-231: stdin is readable
CopyFromStdin ==
    /\ shl.pc = "loop"
    /\ \E outcome \in {"sent", "send raises", "interrupt"} :
         CASE outcome = "sent" ->
                /\ shl.sent < MaxCopied
                /\ shl' = [shl EXCEPT !.sent = @ + 1]
           [] outcome = "send raises" ->
                shl' = HandleFinally(shl, "socket.timeout")
           [] outcome = "interrupt" ->
                shl' = HandleFinally(shl, "KeyboardInterrupt")

(***************************************************************************)
(* _handle_ssh_output: the read loop of execute().                         *)
(***************************************************************************)
\* what recv(1024) can return: bytes that are UTF-8, bytes that are not
Chunks == {[bytes |-> "ok", utf8 |-> TRUE], [bytes |-> "ff", utf8 |-> FALSE]}

\* line 195-198: decode(), and on UnicodeDecodeError
\* decode("latin-1", "surrogateescape")
Decode(data_stream_b) ==
    IF data_stream_b.utf8
    THEN [text |-> data_stream_b.bytes, codec |-> "utf-8"]
    ELSE [text |-> data_stream_b.bytes, codec |-> "latin-1"]

\* standard output: what was written and not yet flushed, what was flushed
Stdout(buffered, flushed) == [buffered |-> buffered, flushed |-> flushed]

\* mutant: the output is written whatever hide_output says
StdoutAfter_IgnoresHide(out, hide_output, data_stream_b) ==
    Stdout(<<>>, out.flushed \o out.buffered \o <<Decode(data_stream_b)>>)

\* line 194-200: if not hide_output: sys.stdout.write(...); flush()
StdoutAfter(out, hide_output, data_stream_b) ==
    IF hide_output
    THEN out
    ELSE Stdout(<<>>, out.flushed \o out.buffered \o <<Decode(data_stream_b)>>)

NoDrain == [pc |-> "idle", hide_output |-> FALSE, inbuf |-> <<>>,
            exit_status |-> NoExit, received |-> <<>>,
            stdout |-> Stdout(<<>>, <<>>), exit_code |-> NoExit, sent |-> 0]

\* line 190-192: the loop is entered, the command was just started
HandleSshOutput(hide_output) ==
    /\ drain.pc = "idle"
    /\ drain' = [drain EXCEPT !.pc = "recv_ready", !.hide_output = hide_output]

\* the remote command writes to its pseudo-terminal
RemoteWrites(chunk) ==
    /\ drain.pc \in {"recv_ready", "exit_status_ready"}
    /\ drain.exit_status = NoExit
    /\ drain.sent < MaxCopied
    /\ drain' = [drain EXCEPT !.inbuf = Append(@, chunk), !.sent = @ + 1]

\* the remote command ends
RemoteExits(code) ==
    /\ drain.pc \in {"recv_ready", "exit_status_ready"}
    /\ drain.exit_status = NoExit
    /\ drain' = [drain EXCEPT !.exit_status = code]

\* line 193-200: if channel.recv_ready(): recv, and write unless hidden
RecvReady ==
    /\ drain.pc = "recv_ready"
    /\ IF drain.inbuf # <<>>
       THEN drain' = [drain EXCEPT
                        !.pc = "exit_status_ready",
                        !.inbuf = Tail(@),
                        !.received = Append(@, Head(drain.inbuf)),
                        !.stdout = StdoutAfter(@, drain.hide_output,
                                               Head(drain.inbuf))]
       ELSE drain' = [drain EXCEPT !.pc = "exit_status_ready"]

\* line 201-204: if channel.exit_status_ready(): exit_code =
\* recv_exit_status(); the loop ends when exit_code is set
ExitStatusReady ==
    /\ drain.pc = "exit_status_ready"
    /\ IF drain.exit_status # NoExit
       THEN drain' = [drain EXCEPT !.pc = "done",
                                   !.exit_code = drain.exit_status]
       ELSE drain' = [drain EXCEPT !.pc = "recv_ready"]

(***************************************************************************)
(* QemuImgCommand.snapshot_list and Snapshot.from_cli_output: the output   *)
(* of "qemu-img snapshot -l" parsed into Snapshots.  A line is the         *)
(* sequence of its words and of the runs of whitespace between them.       *)
(***************************************************************************)
MaxLines == 3

Ws == " "

\* str.split(): the words of the line, whitespace dropped
Split(line) == SelectSeq(line, LAMBDA c : c # Ws)

\* the date the parse is made at: datetime.now()
Now == "now"

DateWords == {"2018-07-11"}

TimeWords == {"15:23:47"}

\* datetime.strptime("{} {}".format(d, t), "%Y-%m-%d %H:%M:%S"); ValueError
\* is caught and gives datetime.now()
ParseDate(d, t) ==
    IF d \in DateWords /\ t \in TimeWords THEN d \o " " \o t ELSE Now

\* Snapshot.from_cli_output: fields[0..5]; IndexError when a field is missing
FromCliOutput(output) ==
    LET fields == Split(output)
    IN  IF Len(fields) < 6
        THEN [raised |-> "IndexError"]
        ELSE [raised |-> None,
              snapshot_id |-> fields[1], tag |-> fields[2],
              vm_size |-> fields[3], date |-> ParseDate(fields[4], fields[5]),
              vm_clock |-> fields[6]]

\* what a call gives: the value it returns, or the exception it raises
Returns(value) == [raised |-> None, value |-> value]

Raises(exception) == [raised |-> exception, value |-> None]

\* mutant: every line that is not empty is parsed
ValidOutput_NonEmpty(lines) == SelectSeq(lines, LAMBDA i : Len(Split(i)) > 0)

\* line 52: [i for i in output.splitlines() if len(i.split()) == 6]
ValidOutput(lines) == SelectSeq(lines, LAMBDA i : Len(Split(i)) = 6)

\* line 53: the list of Snapshots, or the exception of the comprehension
ParseSnapshots(lines) ==
    LET valid_output == ValidOutput(lines)
        parsed == [i \in 1..Len(valid_output) |-> FromCliOutput(valid_output[i])]
    IN  IF \E i \in 1..Len(parsed) : parsed[i].raised # None
        THEN Raises("IndexError")
        ELSE Returns(parsed)

\* lines "qemu-img snapshot -l" prints, and lines it should not
OutputLines ==
    { <<>>,
      <<"Snapshot", Ws, "list:">>,
      <<"ID", Ws, "TAG", Ws, "VM", Ws, "SIZE", Ws, "DATE", Ws, "VM", Ws, "CLOCK">>,
      <<"1", Ws, "latest", Ws, "690M", Ws, "2018-07-11", Ws, "15:23:47", Ws,
        "00:00:36.444">>,
      <<Ws, "2", Ws, "2048-ram", Ws, "1.2G", Ws, "yesterday", Ws, "noon", Ws,
        "00:01:02.000">>,
      <<"3", Ws, "my", Ws, "tag", Ws, "1M", Ws, "2018-07-11", Ws, "15:23:47", Ws,
        "00:00:01.000">>,
      <<"4", Ws, "cut", Ws, "12M">> }

RECURSIVE Outputs(_)
Outputs(n) ==
    IF n = 0 THEN {<<>>}
    ELSE Outputs(n - 1)
           \cup {Append(o, l) : o \in {p \in Outputs(n - 1) : Len(p) = n - 1},
                                 l \in OutputLines}

NoFunction == [op |-> "none", args |-> <<>>, ret |-> Returns(None)]

Called(op, args, ret) == called' = [op |-> op, args |-> args, ret |-> ret]

\* QemuImgCommand.snapshot_list(filename=...), qemu-img printing output
SnapshotListCall ==
    \E output \in Outputs(MaxLines) :
        Called("snapshot_list", <<output>>, ParseSnapshots(output))

(***************************************************************************)
(* has_tag called on any sequence of snapshots.                            *)
(***************************************************************************)
MaxSnapshots == 2

SnapshotTags == {"8192-ram", "4096-ram", "8192-ram-old"}

RECURSIVE SnapshotSeqs(_)
SnapshotSeqs(n) ==
    IF n = 0 THEN {<<>>}
    ELSE SnapshotSeqs(n - 1)
           \cup {Append(q, Snapshot(Len(q) + 1, t)) :
                    q \in {p \in SnapshotSeqs(n - 1) : Len(p) = n - 1},
                    t \in SnapshotTags}

HasTagCall ==
    \E snapshots \in SnapshotSeqs(MaxSnapshots), tag \in SnapshotTags \cup {"x"} :
        Called("has_tag", <<snapshots, tag>>, Returns(has_tag(snapshots, tag)))

(***************************************************************************)
(* get_provider_for: the provider type of a provider name.                 *)
(***************************************************************************)
ProviderNames == {"multipass", "qemu", "Qemu", "lxd", ""}

\* mutant: a name that is not known gives the Qemu provider
GetProviderFor_DefaultsToQemu(provider_name) ==
    IF provider_name = "multipass" THEN Returns("Multipass") ELSE Returns("Qemu")

GetProviderFor(provider_name) ==
    IF provider_name = "multipass" THEN Returns("Multipass")
    ELSE IF provider_name = "qemu" THEN Returns("Qemu")
    ELSE Raises("ProviderNotSupportedError")

GetProviderForCall ==
    \E provider_name \in ProviderNames :
        Called("get_provider_for", <<provider_name>>,
               GetProviderFor(provider_name))

(***************************************************************************)
(* The app metadata errors and their string form.  A string argument is    *)
(* the sequence of its runs of plain characters and of its quotes and      *)
(* backslashes; a template is the sequence of its literal pieces and of    *)
(* its placeholders.                                                       *)
(***************************************************************************)
Lit(text) == [lit |-> text]

Field(name) == [field |-> name]

IsField(piece) == "field" \in DOMAIN piece

FailedPrefix == "Failed to generate snap metadata: "

AppErrors == {"InvalidAppCommandNotExecutable", "InvalidAppCommandFormatError",
              "InvalidCommandChainError", "PrimedCommandNotFoundError"}

\* the fmt of each class
Fmt(exception) ==
    CASE exception = "InvalidAppCommandNotExecutable" ->
           << Lit(FailedPrefix \o "The specified command "), Field("command"),
              Lit(" defined in the app "), Field("app_name"),
              Lit(" is not executable.") >>
      [] exception = "InvalidAppCommandFormatError" ->
           << Lit(FailedPrefix \o "The specified command "), Field("command"),
              Lit(" defined in the app "), Field("app_name"),
              Lit(" does not match the pattern expected by snapd.\n"
                  \o "The command must consist only of alphanumeric characters, "
                  \o "spaces, and the following special characters: "
                  \o "/ . _ # : $ -") >>
      [] exception = "InvalidCommandChainError" ->
           << Lit(FailedPrefix \o "The command-chain item "), Field("item"),
              Lit(" defined in the app "), Field("app_name"),
              Lit(" does not exist or is not executable.\nEnsure that "),
              Field("item"), Lit(" is relative to the prime directory.") >>
      [] exception = "PrimedCommandNotFoundError" ->
           << Lit(FailedPrefix \o "Specified command "), Field("command"),
              Lit(" was not found.\nVerify the command is correct and for a "
                  \o "more deterministic outcome, specify the relative path to "
                  \o "the command from the prime directory.") >>

\* the arguments of each __init__
InitArgs(exception) ==
    IF exception = "PrimedCommandNotFoundError" THEN {"command"}
    ELSE IF exception = "InvalidCommandChainError" THEN {"item", "app_name"}
    ELSE {"command", "app_name"}

Apostrophe == "'"

DoubleQuote == "\""

Backslash == "\\"

ArgValues ==
    { <<"test-command">>, <<"test-app">>, <<"test-chain">>, <<>>,
      <<"it", Apostrophe, "s">>,
      <<"C:", Backslash, "bin">>,
      <<DoubleQuote, "it", Apostrophe, "s", DoubleQuote>> }

RECURSIVE Join(_)
Join(pieces) == IF pieces = <<>> THEN "" ELSE Head(pieces) \o Join(Tail(pieces))

\* str(x) of a string: the string
StrOf(value) == Join(value)

\* repr(x) of a string: in apostrophes, or in double quotes when it holds an
\* apostrophe and no double quote; the quote used and the backslash escaped
ReprOf(value) ==
    LET quote == IF Apostrophe \in SeqToSet(value)
                      /\ DoubleQuote \notin SeqToSet(value)
                 THEN DoubleQuote ELSE Apostrophe
        Escaped(run) == IF run = Backslash \/ run = quote
                        THEN Backslash \o run ELSE run
    IN  quote \o Join([i \in 1..Len(value) |-> Escaped(value[i])]) \o quote

\* mutant: the placeholders are {name}, not {name!r}
FormatPieces_Str(fmt, kwargs) ==
    [i \in 1..Len(fmt) |->
        IF IsField(fmt[i]) THEN StrOf(kwargs[fmt[i].field]) ELSE fmt[i].lit]

\* fmt.format(**kwargs) with {name!r} placeholders, piece by piece
FormatPieces(fmt, kwargs) ==
    [i \in 1..Len(fmt) |->
        IF IsField(fmt[i]) THEN ReprOf(kwargs[fmt[i].field]) ELSE fmt[i].lit]

\* SnapcraftError.__str__: self.fmt.format(**self.__dict__)
ErrorStr(exception, kwargs) ==
    LET pieces == FormatPieces(Fmt(exception), kwargs)
    IN  [pieces |-> pieces, text |-> Join(pieces)]

AppErrorStrCall ==
    \E exception \in AppErrors :
        \E kwargs \in [InitArgs(exception) -> ArgValues] :
            Called("str", <<exception, kwargs>>,
                   Returns(ErrorStr(exception, kwargs)))

(***************************************************************************)
(* The guest across sessions.  A snap installed in the guest is written to *)
(* the primary disk; savevm keeps the state of the disk under the tag, and *)
(* a launch with loadvm brings the disk back to it.                        *)
(***************************************************************************)
SessionTags == {FormatTag(r) : r \in Rams}

\* the ram Qemu._launch passes to QemuDriver.launch
ProviderRam == "2048"

\* the driver is READY: launch() returned and the guest can run commands
Ready ==
    /\ dpc = "idle" /\ cur.op = "launch" /\ dres = "ok"
    /\ proc = "running" /\ ssh = "connected"

\* the snaps the install commands of a run have installed in the guest
GuestInstalls(done) ==
    {RegistryGetFilepath(done[i].snap, done[i + 1].rev) :
        i \in {j \in 1..(Len(done) - 1) :
                  /\ done[j].kind = "call" /\ done[j].ok
                  /\ done[j].snap # "" /\ done[j].onfail = "raise"
                  /\ done[j].via = "_run" /\ done[j].cmd[3] \in {"install", "refresh"}
                  /\ done[j + 1].kind = "mark"}}

\* the hypervisor starts: with -loadvm the disk goes back to the snapshot
GuestBoots ==
    /\ guest' = IF dpc' = "wait_ssh_port" /\ loadvm_tag' # None
                THEN saved[loadvm_tag'] ELSE guest
    /\ UNCHANGED saved

\* the monitor executes a line: savevm keeps the state of the disk
GuestSaved ==
    /\ saved' = IF monIn[monDone + 1] # "quit"
                THEN [saved EXCEPT
                        ![SubSeq(monIn[monDone + 1], Len("savevm ") + 1,
                                 Len(monIn[monDone + 1]))] = guest]
                ELSE saved
    /\ UNCHANGED guest

\* setup_snapcraft run in the guest of a READY driver
SessionSetup ==
    /\ Ready
    /\ SetupSnapcraft
    /\ guest' = guest \cup GuestInstalls(performed')
    /\ UNCHANGED saved

\* a host that has both snaps, one from the store and one built locally
SessionHost ==
    [n \in SnapNameSet |->
        [installed |-> TRUE, revision |-> IF n = "core" THEN "5" ELSE "x1"]]

InitIo ==
    /\ guest = {}
    /\ saved = [t \in SessionTags |-> {}]
    /\ called = NoFunction
    /\ estep = ""
    /\ image_cache = {}
    /\ ilast = NoGet
    /\ shl = NoShell
    /\ drain = NoDrain

InitAux ==
    /\ qcall = NoProviderCall
    /\ ready = FALSE
    /\ xlast = NoExecute
    /\ marked = {}
    /\ rlast = NoRegistryCall
    /\ InitIo

DefaultHost == [n \in SnapNameSet |-> NotInstalled]

(***************************************************************************)
(* Spec: the dependency injector, run again and again on a host whose      *)
(* snaps change.                                                           *)
(***************************************************************************)
Init == InitInjector /\ InitDriver /\ InitCtx /\ InitAux

Next ==
    \/ SetupSnapcraft /\ UNCHANGED <<drvVars, ctxVars, auxVars>>
    \/ HostChange /\ UNCHANGED <<drvVars, ctxVars, auxVars>>

Spec == Init /\ [][Next]_vars

(***************************************************************************)
(* SpecDriver: a QemuDriver whose launch() and stop() are called in any    *)
(* order, one call at a time.                                              *)
(***************************************************************************)
InitDriverSpec ==
    /\ InitDriver
    /\ InitInjector
    /\ InitCtx
    /\ InitAux
    /\ host = DefaultHost

NextDriver ==
    \/ (\E ram \in Rams : LaunchStart(ram)) /\ UNCHANGED <<injVars, ctxVars, auxVars>>
    \/ WaitSshPort /\ UNCHANGED <<injVars, ctxVars, auxVars>>
    \/ SshConnect /\ UNCHANGED <<injVars, ctxVars, auxVars>>
    \/ WaitCloudinit /\ UNCHANGED <<injVars, ctxVars, auxVars>>
    \/ StopStart /\ UNCHANGED <<injVars, ctxVars, auxVars>>
    \/ StopSavevm /\ UNCHANGED <<injVars, ctxVars, auxVars>>
    \/ StopQuit /\ UNCHANGED <<injVars, ctxVars, auxVars>>
    \/ StopJoin /\ UNCHANGED <<injVars, ctxVars, auxVars>>
    \/ MonitorExec /\ UNCHANGED <<injVars, ctxVars, auxVars>>
    \/ HypervisorDies /\ UNCHANGED <<injVars, ctxVars, auxVars>>

SpecDriver == InitDriverSpec /\ [][NextDriver]_vars

(***************************************************************************)
(* SpecDriverFair: SpecDriver in which a call in progress keeps running    *)
(* (the next statement of launch() or stop() is executed when it can be)   *)
(* and the monitor executes the lines it has received.                     *)
(***************************************************************************)
DriverStep ==
    \/ WaitSshPort /\ UNCHANGED <<injVars, ctxVars, auxVars>>
    \/ SshConnect /\ UNCHANGED <<injVars, ctxVars, auxVars>>
    \/ WaitCloudinit /\ UNCHANGED <<injVars, ctxVars, auxVars>>
    \/ StopSavevm /\ UNCHANGED <<injVars, ctxVars, auxVars>>
    \/ StopQuit /\ UNCHANGED <<injVars, ctxVars, auxVars>>
    \/ StopJoin /\ UNCHANGED <<injVars, ctxVars, auxVars>>

SpecDriverFair ==
    /\ SpecDriver
    /\ WF_vars(DriverStep)
    /\ WF_vars(MonitorExec /\ UNCHANGED <<injVars, ctxVars, auxVars>>)

(***************************************************************************)
(* SpecCtx: one `with provider:` statement around a build, on the Qemu     *)
(* provider.                                                               *)
(***************************************************************************)
NextCtx ==
    \/ Enter /\ UNCHANGED <<injVars, auxVars>>
    \/ CreateReturns /\ UNCHANGED <<injVars, auxVars>>
    \/ BodyExecuteStep /\ UNCHANGED <<injVars, auxVars>>
    \/ BodyEnds /\ UNCHANGED <<injVars, auxVars>>
    \/ Exit /\ UNCHANGED <<injVars, auxVars>>
    \/ DestroyReturns /\ UNCHANGED <<injVars, auxVars>>
    \/ WaitSshPort /\ UNCHANGED <<injVars, ctxVars, auxVars>>
    \/ SshConnect /\ UNCHANGED <<injVars, ctxVars, auxVars>>
    \/ WaitCloudinit /\ UNCHANGED <<injVars, ctxVars, auxVars>>
    \/ StopSavevm /\ UNCHANGED <<injVars, ctxVars, auxVars>>
    \/ StopQuit /\ UNCHANGED <<injVars, ctxVars, auxVars>>
    \/ StopJoin /\ UNCHANGED <<injVars, ctxVars, auxVars>>
    \/ MonitorExec /\ UNCHANGED <<injVars, ctxVars, auxVars>>
    \/ HypervisorDies /\ UNCHANGED <<injVars, ctxVars, auxVars>>

SpecCtx == InitDriverSpec /\ [][NextCtx]_vars

(***************************************************************************)
(* SpecProvider: a Qemu provider whose create() and destroy() are called   *)
(* in any order, one call at a time.                                       *)
(***************************************************************************)
NextProvider ==
    \/ QemuCreate /\ UNCHANGED <<injVars, ctxVars, exeVars, regVars, ioVars>>
    \/ QemuCreateReturns /\ UNCHANGED <<injVars, ctxVars, exeVars, regVars, ioVars>>
    \/ QemuDestroy /\ UNCHANGED <<injVars, ctxVars, exeVars, regVars, ioVars>>
    \/ QemuDestroyReturns /\ UNCHANGED <<injVars, ctxVars, exeVars, regVars, ioVars>>
    \/ WaitSshPort /\ UNCHANGED <<injVars, ctxVars, auxVars>>
    \/ SshConnect /\ UNCHANGED <<injVars, ctxVars, auxVars>>
    \/ WaitCloudinit /\ UNCHANGED <<injVars, ctxVars, auxVars>>
    \/ StopSavevm /\ UNCHANGED <<injVars, ctxVars, auxVars>>
    \/ StopQuit /\ UNCHANGED <<injVars, ctxVars, auxVars>>
    \/ StopJoin /\ UNCHANGED <<injVars, ctxVars, auxVars>>
    \/ MonitorExec /\ UNCHANGED <<injVars, ctxVars, auxVars>>
    \/ HypervisorDies /\ UNCHANGED <<injVars, ctxVars, auxVars>>

SpecProvider == InitDriverSpec /\ [][NextProvider]_vars

(***************************************************************************)
(* SpecExec: a QemuDriver whose launch(), stop() and execute() are called  *)
(* in any order, one call at a time; launch() with the ram the Qemu        *)
(* provider passes.                                                        *)
(***************************************************************************)
NextExec ==
    \/ LaunchStart("2048") /\ UNCHANGED <<injVars, ctxVars, auxVars>>
    \/ WaitSshPort /\ UNCHANGED <<injVars, ctxVars, auxVars>>
    \/ SshConnect /\ UNCHANGED <<injVars, ctxVars, auxVars>>
    \/ WaitCloudinit /\ LaunchMakesReady
          /\ UNCHANGED <<injVars, ctxVars, prvVars, xlast, regVars, ioVars>>
    \/ StopStart /\ StopEndsReady
          /\ UNCHANGED <<injVars, ctxVars, prvVars, xlast, regVars, ioVars>>
    \/ StopSavevm /\ UNCHANGED <<injVars, ctxVars, auxVars>>
    \/ StopQuit /\ UNCHANGED <<injVars, ctxVars, auxVars>>
    \/ StopJoin /\ UNCHANGED <<injVars, ctxVars, auxVars>>
    \/ MonitorExec /\ UNCHANGED <<injVars, ctxVars, auxVars>>
    \/ HypervisorDies /\ UNCHANGED <<injVars, ctxVars, auxVars>>
    \/ (\E command \in Commands : Execute(command))
          /\ UNCHANGED <<injVars, ctxVars, prvVars, regVars, ioVars>>

SpecExec == InitDriverSpec /\ [][NextExec]_vars

(***************************************************************************)
(* SpecRegistry: an InstallRegistry whose mark() and exists() are called   *)
(* in any order with the names and revisions the injector uses.            *)
(***************************************************************************)
NextRegistry ==
    \/ (\E n \in SnapNameSet, r \in Revisions : RegistryMarkCall(n, r))
          /\ UNCHANGED <<host, snap_ops, performed, result, regBefore, bumped,
                         again, drvVars, ctxVars, prvVars, exeVars, ioVars>>
    \/ (\E n \in SnapNameSet, r \in Revisions : RegistryExistsCall(n, r))
          /\ UNCHANGED <<host, snap_ops, performed, result, regBefore, bumped,
                         again, drvVars, ctxVars, prvVars, exeVars, ioVars>>

SpecRegistry == InitDriverSpec /\ [][NextRegistry]_vars

(***************************************************************************)
(* SpecBuild: a provider on which setup_snapcraft and execute_step are     *)
(* called in any order, on any state of the host's snaps.                  *)
(***************************************************************************)
NextBuild ==
    \/ SetupSnapcraft /\ estep' = ""
          /\ UNCHANGED <<drvVars, ctxVars, prvVars, exeVars, regVars,
                         imgVars, shl, drain, called, sesVars>>
    \/ ExecuteStep
          /\ UNCHANGED <<drvVars, ctxVars, prvVars, exeVars, regVars,
                         imgVars, shl, drain, called, sesVars>>

SpecBuild == Init /\ [][NextBuild]_vars

(***************************************************************************)
(* SpecImages: BuildImages.get called again and again, for any base and    *)
(* architecture.                                                           *)
(***************************************************************************)
NextImages ==
    \/ (\E base \in Bases, deb_arch \in DebArchs : Get(base, deb_arch))
          /\ UNCHANGED <<injVars, drvVars, ctxVars, prvVars, exeVars, regVars,
                         estep, shl, drain, called, sesVars>>
    \/ CacheCleared
          /\ UNCHANGED <<injVars, drvVars, ctxVars, prvVars, exeVars, regVars,
                         estep, shl, drain, called, sesVars>>

SpecImages == InitDriverSpec /\ [][NextImages]_vars

(***************************************************************************)
(* SpecShell: one call of QemuDriver.shell, step by step, with every       *)
(* failure of the calls it makes.                                          *)
(***************************************************************************)
ShellStep ==
    \/ LocalTerminalSet
    \/ GetSshShell
    \/ InvokeShell
    \/ TcGetAttr
    \/ SetRaw
    \/ CopyFromChannel
    \/ CopyFromStdin

NextShell ==
    ShellStep /\ UNCHANGED <<injVars, drvVars, ctxVars, prvVars, exeVars,
                             regVars, estep, imgVars, drain, called, sesVars>>

SpecShell == InitDriverSpec /\ [][NextShell]_vars

(***************************************************************************)
(* SpecOutput: _handle_ssh_output reading the channel of a remote command  *)
(* while the command writes its output and exits.                          *)
(***************************************************************************)
OutputStep ==
    \/ \E hide_output \in BOOLEAN : HandleSshOutput(hide_output)
    \/ \E chunk \in Chunks : RemoteWrites(chunk)
    \/ \E code \in ExitCodes : RemoteExits(code)
    \/ RecvReady
    \/ ExitStatusReady

NextOutput ==
    OutputStep /\ UNCHANGED <<injVars, drvVars, ctxVars, prvVars, exeVars,
                              regVars, estep, imgVars, shl, called, sesVars>>

SpecOutput == InitDriverSpec /\ [][NextOutput]_vars

(***************************************************************************)
(* SpecFunctions: the functions without state, called with any arguments.  *)
(***************************************************************************)
FunctionCall ==
    \/ SnapshotListCall
    \/ HasTagCall
    \/ GetProviderForCall
    \/ AppErrorStrCall

\* one call from the initial state: a second call would only overwrite the
\* record of the first

NextFunctions ==
    called = NoFunction /\ FunctionCall /\ UNCHANGED <<injVars, drvVars, ctxVars, prvVars, exeVars,
                                regVars, estep, imgVars, shl, drain, sesVars>>

SpecFunctions == InitDriverSpec /\ [][NextFunctions]_vars

(***************************************************************************)
(* SpecSession: sessions of one project, one after the other: the driver   *)
(* is launched with the provider's ram, setup_snapcraft is run in the      *)
(* guest while the driver is READY, the driver is stopped; the hypervisor  *)
(* can die at any time.                                                    *)
(***************************************************************************)
InitSession ==
    /\ InitDriver
    /\ InitInjector
    /\ InitCtx
    /\ InitAux
    /\ host = SessionHost

SessionFrame == UNCHANGED <<injVars, ctxVars, prvVars, exeVars, regVars, estep,
                            imgVars, shl, drain, called>>

NextSession ==
    \/ LaunchStart(ProviderRam) /\ GuestBoots /\ SessionFrame
    \/ WaitSshPort /\ SessionFrame /\ UNCHANGED sesVars
    \/ SshConnect /\ SessionFrame /\ UNCHANGED sesVars
    \/ WaitCloudinit /\ SessionFrame /\ UNCHANGED sesVars
    \/ SessionSetup
          /\ UNCHANGED <<drvVars, ctxVars, prvVars, exeVars, regVars, estep,
                         imgVars, shl, drain, called>>
    \/ StopStart /\ SessionFrame /\ UNCHANGED sesVars
    \/ StopSavevm /\ SessionFrame /\ UNCHANGED sesVars
    \/ StopQuit /\ SessionFrame /\ UNCHANGED sesVars
    \/ StopJoin /\ SessionFrame /\ UNCHANGED sesVars
    \/ MonitorExec /\ GuestSaved /\ SessionFrame
    \/ HypervisorDies /\ SessionFrame /\ UNCHANGED sesVars

SpecSession == InitSession /\ [][NextSession]_vars

(***************************************************************************)
(* What the last run did, read from its steps.                             *)
(***************************************************************************)
Calls == CallsOf(performed)

Ran == result # "none"

Failed == result \notin {"none", "ok"}

IsProbe(step) == step.kind = "call" /\ step.onfail = "caught" /\ step.snap # ""

IsInstallCommand(step) ==
    /\ step.kind = "call" /\ step.via = "_run" /\ Len(step.cmd) >= 3
    /\ step.cmd[1] = "sudo" /\ step.cmd[2] = "snap"
    /\ step.cmd[3] \in {"install", "refresh"}

StepIdx(Keep(_)) == {i \in 1..Len(performed) : Keep(performed[i])}

MountIdx == StepIdx(LAMBDA s : s.via = "_mount")
UmountIdx == StepIdx(LAMBDA s : s.via = "_umount")
InstallIdx == StepIdx(IsInstallCommand)

HostPresent(n) == host[n].installed

HostMarked(n) == HostPresent(n) /\ RegistryExists(regBefore, n, host[n].revision)

(***************************************************************************)
(* C1 as stated: a run of setup_snapcraft that directly follows a run      *)
(* which returned normally, with the host's snaps unchanged in between,    *)
(* issues no guest call, for every host state of core and snapcraft.       *)
(***************************************************************************)
C1_SecondRunIssuesNothing == again # "no" => Calls = <<>>

(***************************************************************************)
(* C1 amended: the second run issues no guest call when both snaps are     *)
(* installed on the host (store or local revision); when a snap is not     *)
(* installed on the host the second run probes the guest for it again.     *)
(***************************************************************************)
C1_SecondRunIdempotentWhenHostPresent ==
    again # "no" =>
        /\ (\A n \in SnapNameSet : HostPresent(n)) => Calls = <<>> /\ result = "ok"
        /\ (\E n \in SnapNameSet : ~HostPresent(n)) => Calls # <<>>

C1_Witness ==
    /\ again = "worked"
    /\ \A n \in SnapNameSet : HostPresent(n)
    /\ \E n \in SnapNameSet : StartsWithX(host[n].revision)
    /\ Calls = <<>>

(***************************************************************************)
(* C2: a snap present in the host cache whose (name, host revision) marker *)
(* is in the registry gets the op NOP without any guest call, and applying *)
(* that op issues no guest call and writes no marker: no step of the run   *)
(* concerns that snap.                                                     *)
(***************************************************************************)
C2_MarkedIsNop ==
    Ran => \A i \in 1..Len(snap_ops) :
        LET n == snap_ops[i].snap_name
        IN  HostMarked(n) =>
              /\ snap_ops[i].op = NOP
              /\ \A k \in 1..Len(performed) : performed[k].snap # n

C2_Witness ==
    /\ Ran
    /\ HostMarked("core")
    /\ snap_ops[2].op = INJECT
    /\ result = "ok"
    /\ \E k \in 1..Len(performed) : performed[k].kind = "mark"

(***************************************************************************)
(* C3 as stated: a snap absent from the host cache always gets the op      *)
(* INSTALL, whatever the guest answers to the probe.                       *)
(***************************************************************************)
C3_AbsentAlwaysInstall ==
    Ran => \A i \in 1..Len(snap_ops) :
        ~HostPresent(snap_ops[i].snap_name) => snap_ops[i].op = INSTALL

(***************************************************************************)
(* C3 amended: a snap absent from the host cache is probed in the guest    *)
(* and gets INSTALL when the probe fails and REFRESH when it succeeds,     *)
(* whatever the registry contains; it never gets INJECT (or NOP).          *)
(***************************************************************************)
C3_AbsentInstallOrRefresh ==
    Ran => \A i \in 1..Len(snap_ops) :
        LET n == snap_ops[i].snap_name
        IN  ~HostPresent(n) =>
              \E k \in 1..Len(performed) :
                  /\ IsProbe(performed[k]) /\ performed[k].snap = n
                  /\ snap_ops[i].op = IF performed[k].ok THEN REFRESH ELSE INSTALL

C3_Witness ==
    /\ Ran
    /\ ~HostPresent("core") /\ snap_ops[1].op = REFRESH
    /\ ~HostPresent("snapcraft") /\ snap_ops[2].op = INSTALL
    /\ \E r \in Revisions : RegistryExists(regBefore, "core", r)

(***************************************************************************)
(* C4: every run whose batch holds an INJECT op mounts the snaps directory *)
(* exactly once, before any install command, and unmounts it exactly once, *)
(* after the last install command; a batch without INJECT neither mounts   *)
(* nor unmounts.                                                           *)
(***************************************************************************)
C4_OneMountOneUmount ==
    Ran =>
        IF AnyInject(snap_ops)
        THEN /\ Cardinality(MountIdx) = 1
             /\ Cardinality(UmountIdx) = 1
             /\ \A m \in MountIdx, u \in UmountIdx, c \in InstallIdx : m < c /\ c < u
        ELSE MountIdx = {} /\ UmountIdx = {}

(***************************************************************************)
(* C5: when applying an op fails, no later op of the batch is applied (no  *)
(* install command, no marker for it), and every marker written for an     *)
(* earlier entry of the batch is in the registry afterwards, with all the  *)
(* markers that were there before the run.                                 *)
(***************************************************************************)
FailedStep == performed[Len(performed)]

C5_AbortKeepsEarlierMarkers ==
    Failed =>
        /\ regBefore \subseteq registry
        /\ \A k \in 1..Len(performed) :
              performed[k].kind = "mark" =>
                  RegistryExists(registry, performed[k].snap, performed[k].rev)
        /\ \A i \in 1..Len(snap_ops), j \in 1..Len(snap_ops) :
              (i < j /\ FailedStep.snap = snap_ops[i].snap_name /\ ~IsProbe(FailedStep)) =>
                  /\ \A k \in 1..Len(performed) :
                        performed[k].snap = snap_ops[j].snap_name => IsProbe(performed[k])
                  /\ \A r \in Revisions :
                        RegistryExists(registry, snap_ops[j].snap_name, r)
                            => RegistryExists(regBefore, snap_ops[j].snap_name, r)
        /\ \A i \in 1..Len(snap_ops), j \in 1..Len(snap_ops) :
              (i < j /\ FailedStep.snap = snap_ops[j].snap_name /\ ~IsProbe(FailedStep)
                 /\ snap_ops[i].op # NOP) =>
                  \E k \in 1..Len(performed) :
                      /\ performed[k].kind = "mark"
                      /\ performed[k].snap = snap_ops[i].snap_name
                      /\ RegistryExists(registry, performed[k].snap, performed[k].rev)

C5_Witness ==
    /\ result = "ProviderExecError"
    /\ snap_ops[1].op = INJECT /\ snap_ops[2].op = INJECT
    /\ IsInstallCommand(FailedStep) /\ FailedStep.snap = "snapcraft"
    /\ RegistryExists(registry, "core", host["core"].revision)
    /\ ~RegistryExists(regBefore, "core", host["core"].revision)
    /\ ~RegistryExists(registry, "snapcraft", host["snapcraft"].revision)

(***************************************************************************)
(* C6 as stated: entering the with statement calls create(); once the body *)
(* was entered, destroy() is called exactly once on every way out of it,   *)
(* and an exception raised in the body is the one that reaches the caller. *)
(***************************************************************************)
BodyEntered == cpc \in {"body", "exit", "destroy"} \/ (cpc = "left" /\ raised.from # "create")

C6_DestroyOnceBodyErrorPropagates ==
    /\ cpc # "out" => ncalls.create = 1
    /\ (cpc = "left" /\ BodyEntered) =>
          /\ ncalls.destroy = 1
          /\ bodyExc # None => raised = Exc(bodyExc, "body")

(***************************************************************************)
(* C6 amended: entering calls create(); once the body was entered,         *)
(* destroy() is called exactly once on every way out of it.  When the body *)
(* raised, the with statement never ends normally: the body's exception    *)
(* reaches the caller when destroy() returns normally, and the exception   *)
(* destroy() raised reaches the caller when destroy() itself fails.        *)
(***************************************************************************)
C6_DestroyOnceErrorNotSwallowed ==
    /\ cpc # "out" => ncalls.create = 1
    /\ cpc \in {"out", "create", "body", "exit"} => ncalls.destroy = 0
    /\ cpc = "destroy" => ncalls.destroy = 1
    /\ (cpc = "left" /\ BodyEntered) =>
          /\ ncalls.destroy = 1
          /\ bodyExc # None =>
                /\ raised.error \notin {"ok", None}
                /\ raised.from = "body" => raised.error = bodyExc
                /\ (raised.from = "destroy") = (dres # "ok" \/ cur.op # "stop")
          /\ bodyExc = None => (raised.error = "ok") = (raised.from # "destroy")

C6_Witness ==
    /\ cpc = "left"
    /\ bodyExc = "ProviderExecError"
    /\ Len(built) = 2
    /\ ncalls.destroy = 1
    /\ raised = Exc("ProviderExecError", "body")
    /\ Stopped

(***************************************************************************)
(* C7: launch hands QemuCommand.setup the tag "<ram>-ram" exactly when the *)
(* snapshot list of the primary disk holds a snapshot of that tag, and     *)
(* None otherwise; it never resumes from a snapshot of another RAM value.  *)
(***************************************************************************)
\* the last launch() got as far as starting the hypervisor
LaunchBooted ==
    cur.op = "launch" /\ ~(dpc = "idle" /\ dres = "ProviderCommandNotFound")

DiskTags == SeqToSet(disk)

C7_ResumeIffTagged ==
    LaunchBooted =>
        /\ loadvm_tag \in {None, cur.ram \o "-ram"}
        /\ (loadvm_tag = cur.ram \o "-ram") = ((cur.ram \o "-ram") \in DiskTags)
        /\ vm_state_tag = cur.ram \o "-ram"

C7_Witness ==
    /\ LaunchBooted
    /\ cur.ram = "4096"
    /\ DiskTags = {"2048-ram", "4096-ram"}
    /\ loadvm_tag = "4096-ram"

(***************************************************************************)
(* C8: launch(ram r1) on a disk without snapshot cold-boots; the stop()    *)
(* that follows sends "savevm <r1>-ram" and the snapshot of that tag       *)
(* exists afterwards; the next launch(ram r1) resumes from that tag; a     *)
(* launch with another ram r2 then cold-boots.                             *)
(***************************************************************************)
IsLaunch(h, i, ram) == Len(h) >= i /\ h[i].op = "launch" /\ h[i].ram = ram
IsStop(h, i) == Len(h) >= i /\ h[i].op = "stop"

C8_ScenarioFor(h, r1, r2) ==
    /\ IsLaunch(h, 1, r1) => h[1].loadvm = None
    /\ (IsLaunch(h, 1, r1) /\ IsStop(h, 2)) =>
          /\ h[2].sent = <<"savevm " \o r1 \o "-ram", "quit">>
          /\ h[2].tags = <<r1 \o "-ram">>
    /\ (IsLaunch(h, 1, r1) /\ IsStop(h, 2) /\ IsLaunch(h, 3, r1)) =>
          h[3].loadvm = r1 \o "-ram"
    /\ (IsLaunch(h, 1, r1) /\ IsStop(h, 2) /\ IsLaunch(h, 3, r1) /\ IsLaunch(h, 4, r2)) =>
          h[4].loadvm = None

C8_LaunchStopLaunchScenario ==
    \A r1 \in Rams, r2 \in Rams : r1 # r2 => C8_ScenarioFor(hist, r1, r2)

C8_Witness ==
    /\ Len(hist) = 4
    /\ IsLaunch(hist, 1, "2048") /\ hist[1].loadvm = None
    /\ IsStop(hist, 2) /\ hist[2].tags = <<"2048-ram">>
    /\ IsLaunch(hist, 3, "2048") /\ hist[3].loadvm = "2048-ram"
    /\ IsLaunch(hist, 4, "4096") /\ hist[4].loadvm = None

(***************************************************************************)
(* C9: in stop(), with a tag computed at launch, the monitor is sent       *)
(* "savevm <tag>" before "quit"; "quit" is written only after the prompt   *)
(* was read again after the savevm line, that is, once the monitor has     *)
(* executed savevm; the hypervisor is joined only after "quit" was         *)
(* written.                                                                *)
(***************************************************************************)
EvIdx(e) == {i \in 1..Len(ev) : ev[i] = e}

C9_SavevmPromptQuitJoin ==
    (cur.op = "stop" /\ vm_state_tag # None) =>
        /\ \A q \in EvIdx("write quit") :
              \E s \in EvIdx("write savevm " \o vm_state_tag), r \in EvIdx("read_until (qemu) ") :
                  s < r /\ r < q
        /\ \A j \in EvIdx("join") : \E q \in EvIdx("write quit") : q < j
        /\ EvIdx("write quit") # {} =>
              /\ monIn = <<"savevm " \o vm_state_tag, "quit">>
              /\ monDone >= 1
              /\ vm_state_tag \in DiskTags

C9_Witness ==
    /\ Stopped
    /\ vm_state_tag = "2048-ram"
    /\ ev = <<"read_until (qemu) ", "write savevm 2048-ram",
              "read_until (qemu) ", "write quit", "join">>

(***************************************************************************)
(* C10: stop() on a driver that is already stopped (the last call was a    *)
(* stop() that returned normally) returns normally and sends nothing to    *)
(* the monitor.  Stated for a host on which "localhost" resolves.          *)
(***************************************************************************)
C10_StopOnStoppedIsNoop ==
    (dpc = "idle" /\ cur.op = "stop" /\ cur.afterStop
       /\ dres # "ProviderCommunicationError") =>
        dres = "ok" /\ ev = <<>>

(***************************************************************************)
(* C11: Provider.destroy is safe to call multiple times.  Calling          *)
(* Qemu.destroy() on an instance that is already destroyed (the provider   *)
(* call before it was a destroy() that returned normally) does nothing, no *)
(* unmount command is sent to the guest, and raises no error.              *)
(***************************************************************************)
C11_DestroyTwiceIsSafe ==
    (qcall.op = "destroy" /\ qcall.pc = "idle" /\ qcall.destroyed)
        => (qcall.res = "ok" /\ qcall.umounts = 0)

(***************************************************************************)
(* C12: when the connection to the monitor port cannot be established      *)
(* (localhost does not resolve, or nothing listens on the port), stop()    *)
(* ends by raising ProviderCommunicationError and no other error.          *)
(***************************************************************************)
C12_UnreachableMonitorIsCommunicationError ==
    (cur.op = "stop" /\ dpc = "idle" /\ cur.monitor \in {"unresolved", "refused"})
        => dres = "ProviderCommunicationError"

(***************************************************************************)
(* C13: launch() returns only after, in this order, the hypervisor was     *)
(* started, a TCP connect to the SSH port succeeded, the SSH               *)
(* authentication succeeded and a probe for the first-boot marker exited   *)
(* 0; probe misses before that, however many, are not an error: launch()   *)
(* never raises ProviderExecError.                                         *)
(***************************************************************************)
LaunchReturned == cur.op = "launch" /\ dpc = "idle" /\ dres = "ok"

C13_LaunchReturnsAfterBootInOrder ==
    /\ LaunchReturned =>
          /\ Len(ev) >= 4
          /\ ev[1] = "start"
          /\ ev[2] = "port open"
          /\ ev[3] = "ssh auth"
          /\ ev[Len(ev)] = "probe 0"
          /\ \A i \in 4..(Len(ev) - 1) : ev[i] = "probe miss"
    /\ (cur.op = "launch" /\ dpc = "idle") => dres # "ProviderExecError"

\* a launch that returned after the probe missed MaxPolls times
C13_Witness ==
    /\ LaunchReturned
    /\ Cardinality({i \in 1..Len(ev) : ev[i] = "probe miss"}) = MaxPolls

(***************************************************************************)
(* C14: when execute() has run the command in the guest, it ran it once:   *)
(* a non-zero exit status raises ProviderExecError carrying the command    *)
(* and that exit status, and exit status 0 makes execute() return          *)
(* normally.                                                               *)
(***************************************************************************)
C14_ExecuteRaisesOnNonZeroExit ==
    (xlast.op = "execute" /\ xlast.exit_code # NoExit) =>
        /\ xlast.runs = 1
        /\ xlast.exit_code # 0 =>
              xlast.error = [type |-> "ProviderExecError",
                             command |-> xlast.command,
                             exit_code |-> xlast.exit_code]
        /\ xlast.exit_code = 0 => xlast.error = NoError

\* the build step command exited 7
C14_Witness ==
    /\ xlast.op = "execute"
    /\ xlast.command = ExecuteStepCommand("build")
    /\ xlast.exit_code = 7
    /\ xlast.error.exit_code = 7

C16_CreateLaunchesThenInjects ==
    (qcall.op = "create" /\ qcall.pc = "idle" /\ qcall.res = "ok") =>
        \E i \in 1..Len(qcall.did), j \in 1..Len(qcall.did) :
            /\ i < j
            /\ qcall.did[i] = "launch_instance"
            /\ qcall.did[j] = "setup_snapcraft"

(***************************************************************************)
(* C17: the ops of a batch are applied in declaration order.  In every run *)
(* of setup_snapcraft, each step applying an earlier snap of the list      *)
(* ('core') comes, and has succeeded, before any step applying a later one *)
(* ('snapcraft'); when applying the earlier snap fails, no step applying   *)
(* the later one is run.                                                   *)
(***************************************************************************)
Applies(step, name) == step.snap = name /\ ~IsProbe(step)

C17_AppliedInDeclarationOrder ==
    \A a \in 1..Len(SnapNames), b \in 1..Len(SnapNames) :
        a < b =>
            /\ \A i \in 1..Len(performed), j \in 1..Len(performed) :
                  (Applies(performed[i], SnapNames[a])
                     /\ Applies(performed[j], SnapNames[b]))
                      => (i < j /\ performed[i].ok)
            /\ (Failed /\ Applies(FailedStep, SnapNames[a])) =>
                  \A j \in 1..Len(performed) : ~Applies(performed[j], SnapNames[b])

\* a run that installed core, then snapcraft
C17_Witness ==
    /\ result = "ok"
    /\ \E i \in InstallIdx, j \in InstallIdx :
          /\ i < j
          /\ performed[i].snap = "core"
          /\ performed[j].snap = "snapcraft"

(***************************************************************************)
(* C18: the injector writes a marker (name, revision) only right after the *)
(* guest install command of that snap returned exit code 0; after every    *)
(* successful install command of an INJECT or INSTALL op the marker        *)
(* (name, applied revision) is in the registry; an install command that    *)
(* fails writes no marker for its snap.                                    *)
(***************************************************************************)
OpOf(name) ==
    LET i == CHOOSE k \in 1..Len(snap_ops) : snap_ops[k].snap_name = name
    IN  snap_ops[i].op

MarkersOf(reg, name) == {r \in Revisions : RegistryExists(reg, name, r)}

C18_MarkerOnlyAfterSuccessfulInstall ==
    /\ \A k \in 1..Len(performed) :
          performed[k].kind = "mark" =>
              /\ k > 1
              /\ IsInstallCommand(performed[k - 1])
              /\ performed[k - 1].ok
              /\ performed[k - 1].snap = performed[k].snap
    /\ \A i \in InstallIdx :
          (performed[i].ok /\ OpOf(performed[i].snap) \in {INJECT, INSTALL}) =>
              /\ i < Len(performed)
              /\ performed[i + 1].kind = "mark"
              /\ performed[i + 1].snap = performed[i].snap
              /\ OpOf(performed[i].snap) = INJECT =>
                    performed[i + 1].rev = host[performed[i].snap].revision
              /\ OpOf(performed[i].snap) = INSTALL =>
                    performed[i + 1].rev \in StoreRevisions
              /\ RegistryExists(registry, performed[i].snap, performed[i + 1].rev)
    /\ \A i \in InstallIdx :
          ~performed[i].ok =>
              /\ \A k \in 1..Len(performed) :
                    performed[k].kind = "mark" => performed[k].snap # performed[i].snap
              /\ MarkersOf(registry, performed[i].snap)
                    = MarkersOf(regBefore, performed[i].snap)
    /\ Ran => registry = regBefore \cup MarksOf(performed)

\* core was injected and marked, then the install command of snapcraft failed
C18_Witness ==
    /\ Failed
    /\ IsInstallCommand(FailedStep)
    /\ FailedStep.snap = "snapcraft"
    /\ OpOf("core") = INJECT
    /\ MarkersOf(registry, "core") # MarkersOf(regBefore, "core")
    /\ MarkersOf(registry, "snapcraft") = {}

(***************************************************************************)
(* C19 as stated: a snap bumped on the host to a new revision, after a     *)
(* marker was written for its previous revision, is not applied again: the *)
(* next run computes NOP for it and issues no install command for it.      *)
(***************************************************************************)
C19_BumpedNotReapplied ==
    \A n \in SnapNameSet :
        (Ran /\ n \in bumped) =>
            /\ OpOf(n) = NOP
            /\ \A i \in InstallIdx : performed[i].snap # n

(***************************************************************************)
(* C19: a snap bumped on the host, after a marker was written for its      *)
(* previous revision, to a revision that has no marker is applied again by *)
(* the next run: its op is INJECT, and a run that returns normally has     *)
(* issued its install command and has marked the new revision.  Only a     *)
(* marker for the very revision the host now has makes the op NOP.  The    *)
(* markers of the earlier revisions stay.                                  *)
(***************************************************************************)
C19_BumpedIsInjectedAgain ==
    \A n \in SnapNameSet :
        (Ran /\ n \in bumped) =>
            /\ OpOf(n) = IF RegistryExists(regBefore, n, host[n].revision)
                         THEN NOP ELSE INJECT
            /\ (OpOf(n) = INJECT /\ result = "ok") =>
                  /\ \E i \in InstallIdx : performed[i].snap = n
                  /\ RegistryExists(registry, n, host[n].revision)
            /\ MarkersOf(regBefore, n) \subseteq MarkersOf(registry, n)
            /\ MarkersOf(regBefore, n) \ {host[n].revision} # {}

\* core went from a marked revision to an unmarked one and was injected again
C19_Witness ==
    /\ result = "ok"
    /\ "core" \in bumped
    /\ OpOf("core") = INJECT
    /\ Cardinality(MarkersOf(registry, "core")) >= 2
    /\ ~RegistryExists(regBefore, "core", host["core"].revision)

(***************************************************************************)
(* C20: InstallRegistry is a grow-only set keyed by (name, revision).      *)
(* mark(n, r) adds the marker of (n, r) and nothing else, so it leaves a   *)
(* registry that holds (n, r) unchanged and never removes or alters        *)
(* another marker; exists never changes the registry; exists(n, r) is true *)
(* if and only if mark was called earlier with exactly (n, r).             *)
(***************************************************************************)
LastKey == RegistryGetFilepath(rlast.snap_name, rlast.snap_revision)

C20_RegistryIsGrowOnlySet ==
    /\ rlast.op = "mark" =>
          /\ rlast.before \subseteq registry
          /\ registry \ rlast.before \subseteq {LastKey}
          /\ LastKey \in rlast.before => registry = rlast.before
          /\ RegistryExists(registry, rlast.snap_name, rlast.snap_revision)
    /\ rlast.op = "exists" =>
          /\ registry = rlast.before
          /\ marked = rlast.markedBefore
          /\ rlast.ret <=>
                <<rlast.snap_name, rlast.snap_revision>> \in rlast.markedBefore
    /\ \A n \in SnapNameSet, r \in Revisions :
          RegistryExists(registry, n, r) <=> <<n, r>> \in marked

\* a pair marked a second time, with markers of other pairs around
C20_Witness ==
    /\ rlast.op = "mark"
    /\ LastKey \in rlast.before
    /\ Cardinality(registry) >= 3
    /\ Cardinality(registry) = Cardinality(marked)

(***************************************************************************)
(* C21: in every run of setup_snapcraft, the command that holds the        *)
(* guest's automatic refreshes and the command that waits for a refresh in *)
(* flight have both been issued, in that order, before the first step that *)
(* applies an op (assertion push, ack, install or refresh command); a run  *)
(* whose batch is not all NOP issues the hold unless it failed before.     *)
(***************************************************************************)
IsHold(step) ==
    /\ step.kind = "call" /\ Len(step.cmd) >= 5
    /\ SubSeq(step.cmd, 1, 4) = <<"sudo", "snap", "set", "core">>

IsWatch(step) ==
    /\ step.kind = "call"
    /\ step.cmd = <<"sudo", "snap", "watch", "--last=auto-refresh">>

HoldIdx == StepIdx(IsHold)
WatchIdx == StepIdx(IsWatch)

\* the steps that apply an op: those made for one snap, its probe aside
ApplyIdx == StepIdx(LAMBDA s : s.snap # "" /\ ~IsProbe(s))

C21_HoldAndWatchBeforeInstalls ==
    /\ \A i \in ApplyIdx \cup InstallIdx :
          \E h \in HoldIdx, w \in WatchIdx : h < w /\ w < i
    /\ Cardinality(HoldIdx) <= 1 /\ Cardinality(WatchIdx) <= 1
    /\ (Ran /\ ~AllNop(snap_ops) /\ MountIdx = {}) => HoldIdx # {}

\* a run that held, waited, then installed both snaps
C21_Witness ==
    /\ result = "ok"
    /\ Cardinality(InstallIdx) = 2
    /\ \E h \in HoldIdx, w \in WatchIdx : \A i \in InstallIdx : h < w /\ w < i

(***************************************************************************)
(* C22: a failure of the wait for a refresh in flight is suppressed, the   *)
(* run goes on to the steps after it; a failure of the command that sets   *)
(* the refresh hold is not suppressed: setup_snapcraft ends there with     *)
(* ProviderExecError, before the wait and before any install command.      *)
(***************************************************************************)
C22_WatchFailureSuppressedHoldFailureAborts ==
    /\ \A w \in WatchIdx :
          ~performed[w].ok =>
              /\ w < Len(performed)
              /\ IsHold(performed[w - 1]) /\ performed[w - 1].ok
    /\ \A h \in HoldIdx :
          ~performed[h].ok =>
              /\ h = Len(performed)
              /\ result = "ProviderExecError"
              /\ WatchIdx = {} /\ InstallIdx = {} /\ ApplyIdx = {}
              /\ registry = regBefore

\* the wait failed and the run still installed and returned normally
C22_Witness ==
    /\ result = "ok"
    /\ InstallIdx # {}
    /\ \E w \in WatchIdx : ~performed[w].ok

(***************************************************************************)
(* C23: for an INJECT op whose host revision does not start with "x", the  *)
(* snap-declaration and snap-revision assertions of the snap are pushed    *)
(* into the guest and acknowledged there before its install command is     *)
(* issued, and the install command has no --dangerous flag; for a host     *)
(* revision that starts with "x", no assertion of the snap is pushed and   *)
(* the install command has the --dangerous flag.                           *)
(***************************************************************************)
IsPushOf(step, name) ==
    /\ step.kind = "call" /\ step.via = "_push_file" /\ step.snap = name
    /\ "snap-declaration" \in SeqToSet(step.cmd)
    /\ "snap-revision" \in SeqToSet(step.cmd)
    /\ ("snap-revision=" \o host[name].revision) \in SeqToSet(step.cmd)

IsAckOf(step, name) ==
    /\ step.kind = "call" /\ step.via = "_run" /\ step.snap = name
    /\ Len(step.cmd) = 4
    /\ SubSeq(step.cmd, 1, 3) = <<"sudo", "snap", "ack">>

C23_AssertionsBeforeInjectUnlessLocal ==
    \A i \in InstallIdx :
        LET name == performed[i].snap
        IN  OpOf(name) = INJECT =>
              IF SubSeq(host[name].revision, 1, 1) = "x"
              THEN /\ "--dangerous" \in SeqToSet(performed[i].cmd)
                   /\ \A k \in 1..Len(performed) :
                         performed[k].snap = name => k >= i
              ELSE /\ "--dangerous" \notin SeqToSet(performed[i].cmd)
                   /\ i > 2
                   /\ IsPushOf(performed[i - 2], name) /\ performed[i - 2].ok
                   /\ IsAckOf(performed[i - 1], name) /\ performed[i - 1].ok

\* core injected with its assertions, snapcraft injected as a local build
C23_Witness ==
    /\ result = "ok"
    /\ OpOf("core") = INJECT /\ host["core"].revision = "5"
    /\ OpOf("snapcraft") = INJECT /\ host["snapcraft"].revision = "x1"
    /\ Cardinality(InstallIdx) = 2

(***************************************************************************)
(* C24: Provider.execute_step(step) issues exactly one remote command, the *)
(* in-guest build tool with the name of the step, changes neither the      *)
(* Install Registry nor what is mounted in the guest, and a non-zero exit  *)
(* of the command reaches the caller as ProviderExecError.                 *)
(***************************************************************************)
C24_ExecuteStepIsOneCommand ==
    estep # "" =>
        /\ Len(performed) = 1
        /\ performed[1].kind = "call" /\ performed[1].via = "_run"
        /\ performed[1].cmd = <<"sudo", "snapcraft", estep>>
        /\ registry = regBefore
        /\ MountIdx = {} /\ UmountIdx = {}
        /\ result = IF performed[1].ok THEN "ok" ELSE "ProviderExecError"

\* a failing build step on a provider whose registry has markers
C24_Witness ==
    /\ estep = "build"
    /\ result = "ProviderExecError"
    /\ registry # {}

(***************************************************************************)
(* C25: when the hypervisor process exits with a non-zero code while       *)
(* launch() is booting the guest, launch() ends (with a failure raised to  *)
(* the caller); it does not go on polling for ever.                        *)
(***************************************************************************)
C25_CrashDuringBootEndsLaunch ==
    (cur.op = "launch" /\ dpc # "idle" /\ proc = "crashed")
        ~> (dpc = "idle" /\ dres # "ok")

(***************************************************************************)
(* C26 as stated: once the SSH port has accepted a TCP connection, no      *)
(* failed SSH connect attempt makes launch() raise: a launch() that has    *)
(* ended after the port opened has authenticated.                          *)
(***************************************************************************)
ConnectLoopReached == cur.op = "launch" /\ "port open" \in SeqToSet(ev)

C26_NoConnectFailureRaises ==
    (ConnectLoopReached /\ dpc = "idle") => "ssh auth" \in SeqToSet(ev)

(***************************************************************************)
(* C26: once the SSH port has accepted a TCP connection, a connect attempt *)
(* that fails with paramiko.SSHException (handshake not ready, key         *)
(* rejected) never makes launch() raise; the only error that leaves the    *)
(* connect loop is a socket.error (connection refused or reset), which     *)
(* launch() raises.                                                        *)
(***************************************************************************)
C26_OnlySocketErrorLeavesConnectLoop ==
    (ConnectLoopReached /\ dpc = "idle" /\ "ssh auth" \notin SeqToSet(ev))
        => dres = "socket.error"

\* MaxPolls attempts have failed and launch() is still connecting
C26_Witness ==
    /\ ConnectLoopReached
    /\ dpc = "ssh_connect"
    /\ misses = MaxPolls

(***************************************************************************)
(* C27: when qemu-img is missing, launch() raises ProviderCommandNotFound  *)
(* at once: the hypervisor has not been started and nothing was polled.    *)
(***************************************************************************)
C27_MissingQemuImgRaisesAtOnce ==
    (cur.op = "launch" /\ dres = "ProviderCommandNotFound" /\ dpc = "idle") =>
        (ev = <<>> /\ misses = 0)

\* qemu-img went missing for the launch() after a launch() and a stop()
C27_Witness ==
    /\ cur.op = "launch" /\ dres = "ProviderCommandNotFound" /\ dpc = "idle"
    /\ proc = "exited"
    /\ Len(disk) > 0

(***************************************************************************)
(* C28: when the digest of a downloaded base image differs from the        *)
(* expected checksum, get() raises BuildImageChecksumError and the image   *)
(* is not added to the image cache: the cache never holds, under a         *)
(* checksum, a file of another digest, so a get() that hits the cache      *)
(* returns a file of the expected digest.                                  *)
(***************************************************************************)
Mismatch ==
    /\ ilast.op = "get" /\ ilast.downloaded # None
    /\ ilast.downloaded # GetBuildImages[<<ilast.base, ilast.deb_arch>>].image.checksum

C28_ChecksumMismatchNeverCached ==
    /\ Mismatch =>
          /\ ilast.error = "BuildImageChecksumError"
          /\ ilast.ret = NoFile
    /\ \A f \in image_cache : f.digest = f.hash
    /\ (ilast.op = "get" /\ ilast.error = None) =>
          /\ ilast.ret # NoFile
          /\ ilast.ret.digest
                = GetBuildImages[<<ilast.base, ilast.deb_arch>>].image.checksum

\* a second download in a row whose digest is wrong
C28_Witness ==
    /\ Mismatch
    /\ ilast.downloads >= 2
    /\ ilast.before = {}
    /\ image_cache = {}

(***************************************************************************)
(* C29: the interactive shell restores the local terminal mode that was in *)
(* effect before it switched to raw mode on every exit path of             *)
(* _handle_ssh_shell, and the remote channel is closed on every exit path  *)
(* of QemuDriver.shell.                                                    *)
(***************************************************************************)
\* _handle_ssh_shell was left after it had read the terminal mode
HandleLeft == shl.pc = "done" /\ shl.oldtty # None

TerminalRestored == HandleLeft => shl.tty = shl.oldtty

ChannelClosed == (shl.pc = "done" /\ shl.chan # "none") => shl.chan = "closed"

C29_TerminalRestoredAndChannelClosed == TerminalRestored /\ ChannelClosed

(***************************************************************************)
(* C30: with hide_output=True the output of the remote command is read     *)
(* from the channel and nothing is written to standard output; with        *)
(* hide_output=False each received chunk is written and flushed to         *)
(* standard output as soon as it is received; in both cases the call       *)
(* returns the exit code of the remote command.                            *)
(***************************************************************************)
Decoded(received) == [i \in 1..Len(received) |-> Decode(received[i])]

C30_OutputStreamedUnlessHiddenAndExitCodeReturned ==
    /\ drain.stdout.buffered = <<>>
    /\ drain.hide_output => drain.stdout.flushed = <<>>
    /\ ~drain.hide_output => drain.stdout.flushed = Decoded(drain.received)
    /\ drain.pc = "done" <=> drain.exit_code # NoExit
    /\ drain.pc = "done" => drain.exit_code = drain.exit_status

\* echo-like command: both kinds of bytes streamed, exit code 0 returned
C30_Witness ==
    /\ drain.pc = "done"
    /\ ~drain.hide_output
    /\ drain.exit_code = 0
    /\ Len(drain.received) = 2
    /\ drain.received[1] # drain.received[2]
    /\ drain.inbuf = <<>>

\* Not a property of the loop: output that arrives between recv_ready() and
\* exit_status_ready() of the last iteration is still in the channel when the
\* call returns.
OutputAllRead == drain.pc = "done" => drain.inbuf = <<>>

(***************************************************************************)
(* C31: snapshot_list never raises because of the shape of a line: every   *)
(* line that does not have exactly six whitespace-separated fields is      *)
(* skipped, and exactly one Snapshot is returned for each six-field line,  *)
(* in output order, even when its date fields do not parse.                *)
(***************************************************************************)
SixFieldLines(lines) == SelectSeq(lines, LAMBDA l : Len(Split(l)) = 6)

C31_SnapshotListSkipsMalformedLines ==
    called.op = "snapshot_list" =>
        LET rows == SixFieldLines(called.args[1])
        IN  /\ called.ret.raised = None
            /\ Len(called.ret.value) = Len(rows)
            /\ \A i \in 1..Len(rows) :
                  /\ called.ret.value[i].snapshot_id = Split(rows[i])[1]
                  /\ called.ret.value[i].tag = Split(rows[i])[2]
                  /\ called.ret.value[i].vm_clock = Split(rows[i])[6]

\* a cut line, a row whose date does not parse and a well-formed row
C31_Witness ==
    /\ called.op = "snapshot_list"
    /\ Len(called.args[1]) = 3
    /\ Len(Split(called.args[1][1])) = 3
    /\ called.ret.raised = None
    /\ Len(called.ret.value) = 2
    /\ called.ret.value[1].date = Now
    /\ called.ret.value[1].tag = "2048-ram"
    /\ called.ret.value[2].date # Now

(***************************************************************************)
(* C32: has_tag(snapshots, tag) is true if and only if some snapshot of    *)
(* the sequence has exactly that tag: false for the empty sequence, true   *)
(* for one snapshot tagged 8192-ram and the tag 8192-ram, false for one    *)
(* snapshot tagged 4096-ram and the tag 8192-ram.                          *)
(***************************************************************************)
TagsOf(snapshots) == {snapshots[i].tag : i \in 1..Len(snapshots)}

C32_HasTagIffSomeSnapshotHasTheTag ==
    called.op = "has_tag" =>
        LET snapshots == called.args[1]
            tag == called.args[2]
        IN  /\ called.ret.raised = None
            /\ called.ret.value <=> tag \in TagsOf(snapshots)
            /\ snapshots = <<>> => ~called.ret.value
            /\ (TagsOf(snapshots) = {"8192-ram"} /\ tag = "8192-ram")
                  => called.ret.value
            /\ (TagsOf(snapshots) = {"4096-ram"} /\ tag = "8192-ram")
                  => ~called.ret.value

\* the tag is the one of the second snapshot, not of the first
C32_Witness ==
    /\ called.op = "has_tag"
    /\ Len(called.args[1]) = 2
    /\ called.args[1][1].tag = "8192-ram-old"
    /\ called.args[1][2].tag = "8192-ram"
    /\ called.args[2] = "8192-ram"
    /\ called.ret.value

(***************************************************************************)
(* C33: get_provider_for returns the Multipass provider type for the name  *)
(* multipass, the Qemu provider type for the name qemu, and raises         *)
(* ProviderNotSupportedError for every other name.                         *)
(***************************************************************************)
C33_GetProviderForKnownNamesOnly ==
    called.op = "get_provider_for" =>
        LET provider_name == called.args[1]
        IN  /\ provider_name = "multipass" => called.ret = Returns("Multipass")
            /\ provider_name = "qemu" => called.ret = Returns("Qemu")
            /\ provider_name \notin {"multipass", "qemu"}
                  => called.ret = Raises("ProviderNotSupportedError")

\* a name that differs from a known one by its case only
C33_Witness ==
    /\ called.op = "get_provider_for"
    /\ called.args[1] = "Qemu"
    /\ called.ret.raised = "ProviderNotSupportedError"

(***************************************************************************)
(* C34: the string form of each app metadata error is its message          *)
(* template with every placeholder replaced by the quoted representation   *)
(* of the constructor argument of that name, and nothing else changed.     *)
(***************************************************************************)
\* the messages the unit test expects
ExpectedMessage(exception) ==
    CASE exception = "InvalidAppCommandNotExecutable" ->
           "Failed to generate snap metadata: The specified command "
           \o "'test-command' defined in the app 'test-app' is not executable."
      [] exception = "InvalidAppCommandFormatError" ->
           "Failed to generate snap metadata: The specified command "
           \o "'test-command' defined in the app 'test-app' does not match the "
           \o "pattern expected by snapd.\nThe command must consist only of "
           \o "alphanumeric characters, spaces, and the following special "
           \o "characters: / . _ # : $ -"
      [] exception = "InvalidCommandChainError" ->
           "Failed to generate snap metadata: The command-chain item "
           \o "'test-chain' defined in the app 'test-app' does not exist or is "
           \o "not executable.\nEnsure that 'test-chain' is relative to the "
           \o "prime directory."
      [] exception = "PrimedCommandNotFoundError" ->
           "Failed to generate snap metadata: Specified command "
           \o "'test-command' was not found.\nVerify the command is correct "
           \o "and for a more deterministic outcome, specify the relative "
           \o "path to the command from the prime directory."

\* the kwargs of the unit test's scenarios
TestKwargs(exception) ==
    [a \in InitArgs(exception) |->
        IF a = "app_name" THEN <<"test-app">>
        ELSE IF a = "item" THEN <<"test-chain">>
        ELSE <<"test-command">>]

C34_ErrorStringIsTemplateWithQuotedArguments ==
    called.op = "str" =>
        LET exception == called.args[1]
            kwargs == called.args[2]
            fmt == Fmt(exception)
            pieces == called.ret.value.pieces
        IN  /\ called.ret.raised = None
            /\ Len(pieces) = Len(fmt)
            /\ \A i \in 1..Len(fmt) :
                  IF IsField(fmt[i])
                  THEN pieces[i] = ReprOf(kwargs[fmt[i].field])
                  ELSE pieces[i] = fmt[i].lit
            /\ called.ret.value.text = Join(pieces)
            /\ kwargs = TestKwargs(exception)
                  => called.ret.value.text = ExpectedMessage(exception)

\* a scenario of the unit test
C34_Witness ==
    /\ called.op = "str"
    /\ called.args[1] = "InvalidCommandChainError"
    /\ called.args[2] = TestKwargs("InvalidCommandChainError")
    /\ called.ret.value.text = ExpectedMessage("InvalidCommandChainError")

(***************************************************************************)
(* C35: _install_snap handles every op _get_required_op can return: for    *)
(* REFRESH it issues exactly one guest command sudo snap refresh <name>    *)
(* and then writes the marker, as it does for INSTALL; the "operation not  *)
(* supported" RuntimeError is raised only for a value outside NOP, INJECT, *)
(* INSTALL and REFRESH, so by no run of setup_snapcraft.                   *)
(***************************************************************************)
RefreshIdx(name) ==
    {i \in InstallIdx : performed[i].snap = name /\ performed[i].cmd[3] = "refresh"}

C35_RefreshIsHandled ==
    /\ result # "RuntimeError"
    /\ result = "ok" =>
          \A k \in 1..Len(snap_ops) :
              snap_ops[k].op = REFRESH =>
                  /\ Cardinality(RefreshIdx(snap_ops[k].snap_name)) = 1
                  /\ \A i \in RefreshIdx(snap_ops[k].snap_name) :
                        /\ performed[i].cmd[Len(performed[i].cmd)]
                              = snap_ops[k].snap_name
                        /\ i < Len(performed)
                        /\ performed[i + 1].kind = "mark"
                        /\ performed[i + 1].snap = snap_ops[k].snap_name

(***************************************************************************)
(* C39: when setup_snapcraft finishes, by returning or by raising, the     *)
(* snaps directory is not left mounted in the guest: every mount the run   *)
(* performed is followed by an unmount before the run ends.                *)
(***************************************************************************)
C39_NoMountLeftBehind ==
    Ran =>
        \A m \in MountIdx :
            performed[m].ok => \E u \in UmountIdx : m < u /\ performed[u].ok

(***************************************************************************)
(* C36: the output loop of a remote command drains the channel: for every  *)
(* interleaving of output arrival and exit-status arrival, all that the    *)
(* remote process wrote before it exited has been read from the channel,   *)
(* and with hide_output=False written to standard output, when             *)
(* _handle_ssh_output returns, also when more than one read of 1024 bytes  *)
(* is still buffered at the moment the exit status becomes ready.          *)
(***************************************************************************)
C36_ChannelDrainedOnReturn ==
    drain.pc = "done" =>
        /\ OutputAllRead
        /\ Len(drain.received) = drain.sent
        /\ ~drain.hide_output => Len(drain.stdout.flushed) = drain.sent

(***************************************************************************)
(* C38: whenever Qemu.destroy() is called on a launched instance,          *)
(* QemuDriver.stop() is invoked, whether or not the project directory was  *)
(* mounted before and whether or not its unmount command succeeds.         *)
(***************************************************************************)
\* a destroy() has ended and the instance it was called on is still as
\* launch() left it: hypervisor running, SSH client connected
DestroyEndedOnLaunched ==
    /\ qcall.op = "destroy" /\ qcall.pc = "idle"
    /\ proc = "running" /\ ssh = "connected"

C38_DestroyAlwaysStops ==
    DestroyEndedOnLaunched => "stop" \in SeqToSet(qcall.did)

(***************************************************************************)
(* C40: no hypervisor process outlives a failed scoped acquisition: when   *)
(* create() raises inside __enter__ after the hypervisor process was       *)
(* started, the VM is stopped (destroy() or stop() is invoked) before the  *)
(* error reaches the caller.                                               *)
(***************************************************************************)
\* the with statement was left by an error of create() raised after the
\* hypervisor was started
EnterFailedAfterStart ==
    /\ cpc = "left" /\ raised.from = "create"
    /\ "start" \in SeqToSet(ev)

C40_FailedEnterStopsHypervisor ==
    (EnterFailedAfterStart /\ proc = "running") =>
        (ncalls.destroy > 0 \/ cur.op = "stop")

(***************************************************************************)
(* C37: registry and guest stay consistent across launches: whenever the   *)
(* Install Registry holds a marker (name, revision), the guest state the   *)
(* next launch() boots (the disk state of the snapshot it resumes from, or *)
(* the disk as last written on a cold boot) has that snap installed at     *)
(* that revision; also when the snap was injected and marked in a session  *)
(* whose stop() fails or is not reached before savevm, and the next launch *)
(* resumes from the older snapshot.                                        *)
(***************************************************************************)
\* no session is in progress: the next call is a launch()
BetweenSessions == dpc = "idle" /\ proc # "running"

\* what the next launch() boots
NextBootState ==
    IF has_tag(SnapshotList(disk), FormatTag(ProviderRam))
    THEN saved[FormatTag(ProviderRam)]
    ELSE guest

C37_MarkedImpliesInstalledAtNextBoot ==
    BetweenSessions => registry \subseteq NextBootState

====
